---- MODULE Spec2Model ----
(***************************************************************************)
(* Model of the rule-based analysis core of ProgramNLU_Scratch:            *)
(*   src/modules/morphology.py    MorphologyAnalyzer                       *)
(*   src/modules/segmentation.py  Segmenter                                *)
(* Python strings are sequences of one-character strings; Python's None    *)
(* is the one-element sequence <<"None">>, which is no string.             *)
(***************************************************************************)
EXTENDS Integers, Sequences, FiniteSets, TLC

\* ------------------------------------------------------------------------
\* Python built-ins used by the two modules
\* ------------------------------------------------------------------------

None == << "None" >>

\* Python truth value of an Optional[str]: None and '' are false.
Truthy(x) == x # None /\ x # << >>

UpperLetters ==
    << "A", "B", "C", "D", "E", "F", "G", "H", "I", "J", "K", "L", "M",
       "N", "O", "P", "Q", "R", "S", "T", "U", "V", "W", "X", "Y", "Z" >>

LowerLetters ==
    << "a", "b", "c", "d", "e", "f", "g", "h", "i", "j", "k", "l", "m",
       "n", "o", "p", "q", "r", "s", "t", "u", "v", "w", "x", "y", "z" >>

LowerChar(c) ==
    IF \E i \in 1..Len(UpperLetters) : UpperLetters[i] = c
    THEN LowerLetters[CHOOSE i \in 1..Len(UpperLetters) : UpperLetters[i] = c]
    ELSE c

\* the one character str.lower() turns into two: U+0130, LATIN CAPITAL LETTER I
\* WITH DOT ABOVE, becomes "i" followed by U+0307, COMBINING DOT ABOVE
CapitalIWithDot == "U+0130"

CombiningDot == "U+0307"

\* str.lower() from index i on, one character at a time
RECURSIVE LowerFrom(_, _)
LowerFrom(word, i) ==
    IF i > Len(word) THEN << >>
    ELSE (IF word[i] = CapitalIWithDot THEN << "i", CombiningDot >>
          ELSE << LowerChar(word[i]) >>) \o LowerFrom(word, i + 1)

\* str.lower()
lower(word) ==
    IF \A i \in 1..Len(word) : word[i] # CapitalIWithDot
    THEN [i \in 1..Len(word) |-> LowerChar(word[i])]
    ELSE LowerFrom(word, 1)

\* str.startswith(p)
startswith(word, p) ==
    /\ Len(p) <= Len(word)
    /\ SubSeq(word, 1, Len(p)) = p

\* str.endswith(s)
endswith(word, s) ==
    /\ Len(s) <= Len(word)
    /\ SubSeq(word, Len(word) - Len(s) + 1, Len(word)) = s

\* word[n + 1:], the slice taken one character too far
SliceFrom_OffByOne(word, n) ==
    IF n + 1 >= Len(word) THEN << >> ELSE SubSeq(word, n + 2, Len(word))

\* word[n:] for n >= 0
SliceFrom(word, n) ==
    IF n >= Len(word) THEN << >> ELSE SubSeq(word, n + 1, Len(word))

\* word[:-n] for n >= 0; word[:-0] is word[:0], the empty string
SliceToNeg(word, n) ==
    IF n = 0 \/ n >= Len(word) THEN << >> ELSE SubSeq(word, 1, Len(word) - n)

\* list.insert(i, x) for i >= 0 (an index past the end appends)
ListInsert(list, i, x) ==
    IF i >= Len(list) THEN Append(list, x)
    ELSE SubSeq(list, 1, i) \o << x >> \o SubSeq(list, i + 1, Len(list))

SetMax(S) == CHOOSE m \in S : \A k \in S : k <= m

SetMin(S) == CHOOSE m \in S : \A k \in S : m <= k

\* dict.get(key, default) on a table kept as a sequence of key/value rows
\* in insertion order with unique keys
DictKeys(table) == { table[i].morpheme : i \in 1..Len(table) }

DictGet(table, key, default) ==
    IF key \in DictKeys(table)
    THEN table[CHOOSE i \in 1..Len(table) : table[i].morpheme = key].meaning
    ELSE default

\* {r['morpheme']: r['meaning'] for r in rows}: a repeated key keeps its
\* first position and takes the last meaning
RECURSIVE DictFromRows(_)
DictFromRows(rows) ==
    IF rows = << >> THEN << >>
    ELSE LET n    == Len(rows)
             head == DictFromRows(SubSeq(rows, 1, n - 1))
             r    == rows[n]
         IN  IF r.morpheme \in DictKeys(head)
             THEN [i \in 1..Len(head) |->
                     IF head[i].morpheme = r.morpheme
                     THEN [morpheme |-> r.morpheme, meaning |-> r.meaning]
                     ELSE head[i]]
             ELSE Append(head, [morpheme |-> r.morpheme, meaning |-> r.meaning])

\* sorted(table.items(), key=lambda x: len(x[0]), reverse=True): the sort is
\* stable, so rows of equal key length keep their table order
RECURSIVE LenBuckets(_, _)
LenBuckets(table, L) ==
    IF L < 0 THEN << >>
    ELSE LET HasLen(r) == Len(r.morpheme) = L
         IN  SelectSeq(table, HasLen) \o LenBuckets(table, L - 1)

\* table.items() left in table order, the sort forgotten
SortedByLenDesc_TableOrder(table) == table

SortedByLenDesc(table) ==
    IF table = << >> THEN << >>
    ELSE LenBuckets(table, SetMax({ Len(table[i].morpheme) : i \in 1..Len(table) }))

\* ------------------------------------------------------------------------
\* MorphologyAnalyzer: fixed tables (morphology.py)
\* ------------------------------------------------------------------------

irregular_verbs ==
       <<"w", "a", "s">> :> <<"b", "e">>
    @@ <<"w", "e", "r", "e">> :> <<"b", "e">>
    @@ <<"b", "e", "e", "n">> :> <<"b", "e">>
    @@ <<"b", "e", "i", "n", "g">> :> <<"b", "e">>
    @@ <<"h", "a", "d">> :> <<"h", "a", "v", "e">>
    @@ <<"h", "a", "s">> :> <<"h", "a", "v", "e">>
    @@ <<"h", "a", "v", "i", "n", "g">> :> <<"h", "a", "v", "e">>
    @@ <<"d", "i", "d">> :> <<"d", "o">>
    @@ <<"d", "o", "e", "s">> :> <<"d", "o">>
    @@ <<"d", "o", "n", "e">> :> <<"d", "o">>
    @@ <<"d", "o", "i", "n", "g">> :> <<"d", "o">>
    @@ <<"w", "e", "n", "t">> :> <<"g", "o">>
    @@ <<"g", "o", "n", "e">> :> <<"g", "o">>
    @@ <<"g", "o", "i", "n", "g">> :> <<"g", "o">>
    @@ <<"s", "a", "w">> :> <<"s", "e", "e">>
    @@ <<"s", "e", "e", "n">> :> <<"s", "e", "e">>
    @@ <<"s", "e", "e", "i", "n", "g">> :> <<"s", "e", "e">>
    @@ <<"t", "o", "o", "k">> :> <<"t", "a", "k", "e">>
    @@ <<"t", "a", "k", "e", "n">> :> <<"t", "a", "k", "e">>
    @@ <<"t", "a", "k", "i", "n", "g">> :> <<"t", "a", "k", "e">>
    @@ <<"c", "a", "m", "e">> :> <<"c", "o", "m", "e">>
    @@ <<"c", "o", "m", "i", "n", "g">> :> <<"c", "o", "m", "e">>
    @@ <<"g", "o", "t">> :> <<"g", "e", "t">>
    @@ <<"g", "o", "t", "t", "e", "n">> :> <<"g", "e", "t">>
    @@ <<"g", "e", "t", "t", "i", "n", "g">> :> <<"g", "e", "t">>
    @@ <<"m", "a", "d", "e">> :> <<"m", "a", "k", "e">>
    @@ <<"m", "a", "k", "i", "n", "g">> :> <<"m", "a", "k", "e">>
    @@ <<"s", "a", "i", "d">> :> <<"s", "a", "y">>
    @@ <<"s", "a", "y", "i", "n", "g">> :> <<"s", "a", "y">>
    @@ <<"t", "h", "o", "u", "g", "h", "t">> :> <<"t", "h", "i", "n", "k">>
    @@ <<"t", "h", "i", "n", "k", "i", "n", "g">> :> <<"t", "h", "i", "n", "k">>
    @@ <<"f", "o", "u", "n", "d">> :> <<"f", "i", "n", "d">>
    @@ <<"f", "i", "n", "d", "i", "n", "g">> :> <<"f", "i", "n", "d">>
    @@ <<"g", "a", "v", "e">> :> <<"g", "i", "v", "e">>
    @@ <<"g", "i", "v", "e", "n">> :> <<"g", "i", "v", "e">>
    @@ <<"g", "i", "v", "i", "n", "g">> :> <<"g", "i", "v", "e">>
    @@ <<"t", "o", "l", "d">> :> <<"t", "e", "l", "l">>
    @@ <<"t", "e", "l", "l", "i", "n", "g">> :> <<"t", "e", "l", "l">>
    @@ <<"f", "e", "l", "t">> :> <<"f", "e", "e", "l">>
    @@ <<"f", "e", "e", "l", "i", "n", "g">> :> <<"f", "e", "e", "l">>
    @@ <<"k", "n", "e", "w">> :> <<"k", "n", "o", "w">>
    @@ <<"k", "n", "o", "w", "n">> :> <<"k", "n", "o", "w">>
    @@ <<"k", "n", "o", "w", "i", "n", "g">> :> <<"k", "n", "o", "w">>
    @@ <<"l", "e", "f", "t">> :> <<"l", "e", "a", "v", "e">>
    @@ <<"l", "e", "a", "v", "i", "n", "g">> :> <<"l", "e", "a", "v", "e">>
    @@ <<"k", "e", "p", "t">> :> <<"k", "e", "e", "p">>
    @@ <<"k", "e", "e", "p", "i", "n", "g">> :> <<"k", "e", "e", "p">>
    @@ <<"h", "e", "l", "d">> :> <<"h", "o", "l", "d">>
    @@ <<"h", "o", "l", "d", "i", "n", "g">> :> <<"h", "o", "l", "d">>
    @@ <<"w", "r", "o", "t", "e">> :> <<"w", "r", "i", "t", "e">>
    @@ <<"w", "r", "i", "t", "t", "e", "n">> :> <<"w", "r", "i", "t", "e">>
    @@ <<"w", "r", "i", "t", "i", "n", "g">> :> <<"w", "r", "i", "t", "e">>
    @@ <<"s", "t", "o", "o", "d">> :> <<"s", "t", "a", "n", "d">>
    @@ <<"s", "t", "a", "n", "d", "i", "n", "g">> :> <<"s", "t", "a", "n", "d">>
    @@ <<"h", "e", "a", "r", "d">> :> <<"h", "e", "a", "r">>
    @@ <<"h", "e", "a", "r", "i", "n", "g">> :> <<"h", "e", "a", "r">>
    @@ <<"b", "r", "o", "u", "g", "h", "t">> :> <<"b", "r", "i", "n", "g">>
    @@ <<"b", "r", "i", "n", "g", "i", "n", "g">> :> <<"b", "r", "i", "n", "g">>
    @@ <<"b", "e", "g", "a", "n">> :> <<"b", "e", "g", "i", "n">>
    @@ <<"b", "e", "g", "u", "n">> :> <<"b", "e", "g", "i", "n">>
    @@ <<"b", "e", "g", "i", "n", "n", "i", "n", "g">> :> <<"b", "e", "g", "i", "n">>
    @@ <<"r", "a", "n">> :> <<"r", "u", "n">>
    @@ <<"r", "u", "n", "n", "i", "n", "g">> :> <<"r", "u", "n">>
    @@ <<"s", "a", "t">> :> <<"s", "i", "t">>
    @@ <<"s", "i", "t", "t", "i", "n", "g">> :> <<"s", "i", "t">>
    @@ <<"s", "p", "o", "k", "e">> :> <<"s", "p", "e", "a", "k">>
    @@ <<"s", "p", "o", "k", "e", "n">> :> <<"s", "p", "e", "a", "k">>
    @@ <<"s", "p", "e", "a", "k", "i", "n", "g">> :> <<"s", "p", "e", "a", "k">>
    @@ <<"a", "t", "e">> :> <<"e", "a", "t">>
    @@ <<"e", "a", "t", "e", "n">> :> <<"e", "a", "t">>
    @@ <<"e", "a", "t", "i", "n", "g">> :> <<"e", "a", "t">>

irregular_plurals ==
       <<"c", "h", "i", "l", "d", "r", "e", "n">> :> <<"c", "h", "i", "l", "d">>
    @@ <<"m", "e", "n">> :> <<"m", "a", "n">>
    @@ <<"w", "o", "m", "e", "n">> :> <<"w", "o", "m", "a", "n">>
    @@ <<"f", "e", "e", "t">> :> <<"f", "o", "o", "t">>
    @@ <<"t", "e", "e", "t", "h">> :> <<"t", "o", "o", "t", "h">>
    @@ <<"m", "i", "c", "e">> :> <<"m", "o", "u", "s", "e">>
    @@ <<"g", "e", "e", "s", "e">> :> <<"g", "o", "o", "s", "e">>
    @@ <<"p", "e", "o", "p", "l", "e">> :> <<"p", "e", "r", "s", "o", "n">>

DefaultPrefixes ==
    << [morpheme |-> <<"u", "n">>, meaning |-> "not, opposite of"],
       [morpheme |-> <<"r", "e">>, meaning |-> "again, back"],
       [morpheme |-> <<"p", "r", "e">>, meaning |-> "before"],
       [morpheme |-> <<"p", "o", "s", "t">>, meaning |-> "after"],
       [morpheme |-> <<"d", "i", "s">>, meaning |-> "not, opposite"],
       [morpheme |-> <<"m", "i", "s">>, meaning |-> "wrongly"],
       [morpheme |-> <<"a", "n", "t", "i">>, meaning |-> "against"],
       [morpheme |-> <<"a", "u", "t", "o">>, meaning |-> "self"],
       [morpheme |-> <<"c", "o">>, meaning |-> "together"],
       [morpheme |-> <<"d", "e">>, meaning |-> "remove, reduce"],
       [morpheme |-> <<"e", "x">>, meaning |-> "out of, former"],
       [morpheme |-> <<"i", "n">>, meaning |-> "not, in"],
       [morpheme |-> <<"i", "n", "t", "e", "r">>, meaning |-> "between"],
       [morpheme |-> <<"n", "o", "n">>, meaning |-> "not"],
       [morpheme |-> <<"o", "v", "e", "r">>, meaning |-> "excessive"],
       [morpheme |-> <<"s", "u", "b">>, meaning |-> "under"],
       [morpheme |-> <<"s", "u", "p", "e", "r">>, meaning |-> "above"],
       [morpheme |-> <<"t", "r", "a", "n", "s">>, meaning |-> "across"],
       [morpheme |-> <<"u", "n", "d", "e", "r">>, meaning |-> "below"] >>

DefaultSuffixes ==
    << [morpheme |-> <<"e", "d">>, meaning |-> "past tense"],
       [morpheme |-> <<"i", "n", "g">>, meaning |-> "present participle"],
       [morpheme |-> <<"s">>, meaning |-> "plural/3rd person"],
       [morpheme |-> <<"e", "s">>, meaning |-> "plural"],
       [morpheme |-> <<"e", "r">>, meaning |-> "comparative/agent"],
       [morpheme |-> <<"e", "s", "t">>, meaning |-> "superlative"],
       [morpheme |-> <<"l", "y">>, meaning |-> "adverb"],
       [morpheme |-> <<"n", "e", "s", "s">>, meaning |-> "state/quality"],
       [morpheme |-> <<"t", "i", "o", "n">>, meaning |-> "action/process"],
       [morpheme |-> <<"s", "i", "o", "n">>, meaning |-> "action/process"],
       [morpheme |-> <<"m", "e", "n", "t">>, meaning |-> "action/result"],
       [morpheme |-> <<"a", "b", "l", "e">>, meaning |-> "capable of"],
       [morpheme |-> <<"i", "b", "l", "e">>, meaning |-> "capable of"],
       [morpheme |-> <<"f", "u", "l">>, meaning |-> "full of"],
       [morpheme |-> <<"l", "e", "s", "s">>, meaning |-> "without"],
       [morpheme |-> <<"o", "u", "s">>, meaning |-> "possessing"],
       [morpheme |-> <<"i", "v", "e">>, meaning |-> "tending to"],
       [morpheme |-> <<"a", "l">>, meaning |-> "relating to"],
       [morpheme |-> <<"i", "t", "y">>, meaning |-> "state/quality"],
       [morpheme |-> <<"i", "z", "e">>, meaning |-> "make/become"],
       [morpheme |-> <<"i", "s", "e">>, meaning |-> "make/become"] >>

pos_map ==
       <<"l", "y">> :> << "adverb" >>
    @@ <<"n", "e", "s", "s">> :> << "noun" >>
    @@ <<"t", "i", "o", "n">> :> << "noun" >>
    @@ <<"s", "i", "o", "n">> :> << "noun" >>
    @@ <<"m", "e", "n", "t">> :> << "noun" >>
    @@ <<"i", "t", "y">> :> << "noun" >>
    @@ <<"e", "r">> :> << "noun", "adjective" >>
    @@ <<"e", "s", "t">> :> << "adjective" >>
    @@ <<"a", "b", "l", "e">> :> << "adjective" >>
    @@ <<"i", "b", "l", "e">> :> << "adjective" >>
    @@ <<"f", "u", "l">> :> << "adjective" >>
    @@ <<"l", "e", "s", "s">> :> << "adjective" >>
    @@ <<"o", "u", "s">> :> << "adjective" >>
    @@ <<"i", "v", "e">> :> << "adjective" >>
    @@ <<"a", "l">> :> << "adjective" >>
    @@ <<"e", "d">> :> << "verb", "adjective" >>
    @@ <<"i", "n", "g">> :> << "verb", "noun", "adjective" >>
    @@ <<"s">> :> << "noun", "verb" >>
    @@ <<"e", "s">> :> << "noun", "verb" >>
    @@ <<"i", "z", "e">> :> << "verb" >>
    @@ <<"i", "s", "e">> :> << "verb" >>

suffixes_to_try ==
    << << <<"i", "e", "s">>, <<"y">> >>,
       << <<"i", "e", "d">>, <<"y">> >>,
       << <<"y", "i", "n", "g">>, <<"i", "e">> >>,
       << <<"s", "s", "e", "s">>, <<"s", "s">> >>,
       << <<"x", "e", "s">>, <<"x">> >>,
       << <<"z", "e", "s">>, <<"z">> >>,
       << <<"c", "h", "e", "s">>, <<"c", "h">> >>,
       << <<"s", "h", "e", "s">>, <<"s", "h">> >>,
       << <<"v", "e", "s">>, <<"f">> >>,
       << <<"i", "n", "g">>, <<>> >>,
       << <<"e", "d">>, <<>> >>,
       << <<"e", "s">>, <<>> >>,
       << <<"s">>, <<>> >> >>

\* ------------------------------------------------------------------------
\* MorphologyAnalyzer: analysis of one word (morphology.py 182-388).
\* `self` is the analyzer's tables [prefixes, suffixes, roots].
\* ------------------------------------------------------------------------

\* the None an _identify_* returns; a match is a record with matched = TRUE
NoMatch == [matched |-> FALSE]

\* the rule loop with the break moved out of the length check: the first rule
\* whose suffix matches ends the loop whether or not it was applied
RECURSIVE TryRules_BreakOnMatch(_, _)
TryRules_BreakOnMatch(lemma, i) ==
    IF i > Len(suffixes_to_try) THEN lemma
    ELSE LET suffix          == suffixes_to_try[i][1]
             replacement     == suffixes_to_try[i][2]
             potential_lemma == SliceToNeg(lemma, Len(suffix)) \o replacement
         IN  IF endswith(lemma, suffix)
             THEN (IF Len(potential_lemma) >= 2 THEN potential_lemma ELSE lemma)
             ELSE TryRules_BreakOnMatch(lemma, i + 1)

\* for suffix, replacement in suffixes_to_try: ... break  (rules i..end)
RECURSIVE TryRules(_, _)
TryRules(lemma, i) ==
    IF i > Len(suffixes_to_try) THEN lemma
    ELSE LET suffix          == suffixes_to_try[i][1]
             replacement     == suffixes_to_try[i][2]
             potential_lemma == SliceToNeg(lemma, Len(suffix)) \o replacement
         IN  IF endswith(lemma, suffix) /\ Len(potential_lemma) >= 2
             THEN potential_lemma
             ELSE TryRules(lemma, i + 1)

\* lemmatize with the lower-casing forgotten
lemmatize_NoLower(word) ==
    IF word \in DOMAIN irregular_verbs THEN irregular_verbs[word]
    ELSE IF word \in DOMAIN irregular_plurals THEN irregular_plurals[word]
    ELSE TryRules(word, 1)

lemmatize(word) ==
    LET word_lower == lower(word)
    IN  IF word_lower \in DOMAIN irregular_verbs THEN irregular_verbs[word_lower]
        ELSE IF word_lower \in DOMAIN irregular_plurals THEN irregular_plurals[word_lower]
        ELSE TryRules(word_lower, 1)

\* the prefix loop with the remaining-length check forgotten
RECURSIVE ScanPrefixes_NoGuard(_, _, _)
ScanPrefixes_NoGuard(items, i, word) ==
    IF i > Len(items) THEN NoMatch
    ELSE LET prefix    == items[i].morpheme
             remaining == SliceFrom(word, Len(prefix))
         IN  IF startswith(word, prefix)
             THEN [matched |-> TRUE, prefix |-> prefix,
                   meaning |-> items[i].meaning, remaining |-> remaining]
             ELSE ScanPrefixes_NoGuard(items, i + 1, word)

\* for prefix, meaning in sorted(...): the first row (from row i on) that the
\* word starts with and that leaves at least 3 characters
RECURSIVE ScanPrefixes(_, _, _)
ScanPrefixes(items, i, word) ==
    IF i > Len(items) THEN NoMatch
    ELSE LET prefix    == items[i].morpheme
             remaining == SliceFrom(word, Len(prefix))
         IN  IF startswith(word, prefix) /\ Len(remaining) >= 3
             THEN [matched |-> TRUE, prefix |-> prefix,
                   meaning |-> items[i].meaning, remaining |-> remaining]
             ELSE ScanPrefixes(items, i + 1, word)

identify_prefix(self, word) ==
    ScanPrefixes(SortedByLenDesc(self.prefixes), 1, word)

\* the suffix loop giving up at the first suffix the word ends with
RECURSIVE ScanSuffixes_FirstMatchOnly(_, _, _)
ScanSuffixes_FirstMatchOnly(items, i, word) ==
    IF i > Len(items) THEN NoMatch
    ELSE LET suffix    == items[i].morpheme
             remaining == SliceToNeg(word, Len(suffix))
         IN  IF endswith(word, suffix)
             THEN (IF Len(remaining) >= 3
                   THEN [matched |-> TRUE, suffix |-> suffix,
                         meaning |-> items[i].meaning, remaining |-> remaining]
                   ELSE NoMatch)
             ELSE ScanSuffixes_FirstMatchOnly(items, i + 1, word)

RECURSIVE ScanSuffixes(_, _, _)
ScanSuffixes(items, i, word) ==
    IF i > Len(items) THEN NoMatch
    ELSE LET suffix    == items[i].morpheme
             remaining == SliceToNeg(word, Len(suffix))
         IN  IF endswith(word, suffix) /\ Len(remaining) >= 3
             THEN [matched |-> TRUE, suffix |-> suffix,
                   meaning |-> items[i].meaning, remaining |-> remaining]
             ELSE ScanSuffixes(items, i + 1, word)

identify_suffix(self, word) ==
    ScanSuffixes(SortedByLenDesc(self.suffixes), 1, word)

\* the lookup answering noun for a suffix the mapping does not hold
infer_pos_from_suffix_NounDefault(suffix) ==
    IF suffix \in DOMAIN pos_map THEN pos_map[suffix] ELSE << "noun" >>

infer_pos_from_suffix(suffix) ==
    IF suffix \in DOMAIN pos_map THEN pos_map[suffix] ELSE << >>

\* the analysis dict built with the lower-cased word as its lemma
NewAnalysis_LemmaIsWord(word, word_lower) ==
    [original     |-> word,
     lemma        |-> word_lower,
     prefix       |-> None,
     root         |-> None,
     suffix       |-> None,
     morphemes    |-> << >>,
     possible_pos |-> << >>]

\* the analysis dict as analyze_word first builds it (lines 192-202)
NewAnalysis(word, word_lower) ==
    [original     |-> word,
     lemma        |-> lemmatize(word_lower),
     prefix       |-> None,
     root         |-> None,
     suffix       |-> None,
     morphemes    |-> << >>,
     possible_pos |-> << >>]

\* the two irregular branches (lines 205-225)
IrregularAnalysis(analysis, base, pos, meaning) ==
    [analysis EXCEPT
       !.lemma        = base,
       !.root         = base,
       !.possible_pos = << pos >>,
       !.morphemes    = Append(@, [type |-> "root", form |-> base, meaning |-> meaning])]

\* the regular decomposition adding the root morpheme only beside an affix
RegularAnalysis_RootOnlyWithAffix(self, analysis, word_lower) ==
    LET prefix_result == identify_prefix(self, word_lower)
        a1 == IF prefix_result.matched
              THEN [analysis EXCEPT
                      !.prefix    = prefix_result.prefix,
                      !.morphemes = Append(@, [type    |-> "prefix",
                                               form    |-> prefix_result.prefix,
                                               meaning |-> prefix_result.meaning])]
              ELSE analysis
        remaining == IF prefix_result.matched THEN prefix_result.remaining
                     ELSE word_lower
        suffix_result == identify_suffix(self, remaining)
        a2 == IF suffix_result.matched
              THEN [a1 EXCEPT
                      !.suffix       = suffix_result.suffix,
                      !.morphemes    = Append(@, [type    |-> "suffix",
                                                  form    |-> suffix_result.suffix,
                                                  meaning |-> suffix_result.meaning]),
                      !.root         = suffix_result.remaining,
                      !.possible_pos = infer_pos_from_suffix(suffix_result.suffix)]
              ELSE [a1 EXCEPT !.root = remaining]
    IN  IF Truthy(a2.root) /\ (prefix_result.matched \/ suffix_result.matched)
        THEN [a2 EXCEPT
                !.morphemes = ListInsert(@, IF Truthy(a2.prefix) THEN 1 ELSE 0,
                                         [type    |-> "root",
                                          form    |-> a2.root,
                                          meaning |-> DictGet(self.roots, a2.root,
                                                              "word root")])]
        ELSE a2

\* regular decomposition (lines 227-267)
RegularAnalysis(self, analysis, word_lower) ==
    LET prefix_result == identify_prefix(self, word_lower)
        a1 == IF prefix_result.matched
              THEN [analysis EXCEPT
                      !.prefix    = prefix_result.prefix,
                      !.morphemes = Append(@, [type    |-> "prefix",
                                               form    |-> prefix_result.prefix,
                                               meaning |-> prefix_result.meaning])]
              ELSE analysis
        remaining == IF prefix_result.matched THEN prefix_result.remaining
                     ELSE word_lower
        suffix_result == identify_suffix(self, remaining)
        a2 == IF suffix_result.matched
              THEN [a1 EXCEPT
                      !.suffix       = suffix_result.suffix,
                      !.morphemes    = Append(@, [type    |-> "suffix",
                                                  form    |-> suffix_result.suffix,
                                                  meaning |-> suffix_result.meaning]),
                      !.root         = suffix_result.remaining,
                      !.possible_pos = infer_pos_from_suffix(suffix_result.suffix)]
              ELSE [a1 EXCEPT !.root = remaining]
    IN  IF Truthy(a2.root)
        THEN [a2 EXCEPT
                !.morphemes = ListInsert(@, IF Truthy(a2.prefix) THEN 1 ELSE 0,
                                         [type    |-> "root",
                                          form    |-> a2.root,
                                          meaning |-> DictGet(self.roots, a2.root,
                                                              "word root")])]
        ELSE a2

\* analyze_word with the two irregular-table checks forgotten
analyze_word_NoIrregular(self, word) ==
    RegularAnalysis(self, NewAnalysis(word, lower(word)), lower(word))

analyze_word(self, word) ==
    LET word_lower == lower(word)
        analysis   == NewAnalysis(word, word_lower)
    IN  IF word_lower \in DOMAIN irregular_verbs
        THEN IrregularAnalysis(analysis, irregular_verbs[word_lower], "verb",
                               "verb root (irregular)")
        ELSE IF word_lower \in DOMAIN irregular_plurals
        THEN IrregularAnalysis(analysis, irregular_plurals[word_lower], "noun",
                               "noun root (irregular plural)")
        ELSE RegularAnalysis(self, analysis, word_lower)

segment_morphemes(self, word) ==
    LET morphemes == analyze_word(self, word).morphemes
    IN  [i \in 1..Len(morphemes) |-> morphemes[i].form]

\* ------------------------------------------------------------------------
\* Table loading (morphology.py 111-180) over the storage collaborator
\* ------------------------------------------------------------------------

\* _load_default_morphemes assigns prefixes and suffixes only; roots keeps
\* whatever it held
load_default_morphemes(self) ==
    [self EXCEPT !.prefixes = DefaultPrefixes, !.suffixes = DefaultSuffixes]

\* db_manager.fetch_all("SELECT morpheme, meaning FROM morphemes WHERE type = ..."):
\* "rows" is the rows of that type, "empty" is DatabaseManager.fetch_all
\* swallowing a database error and returning [], "raise" is a collaborator
\* whose fetch raises
FetchOutcomes == { "rows", "empty", "raise" }

fetch_all(rows, type, outcome) ==
    IF outcome = "rows"
    THEN LET OfType(r) == r.type = type IN SelectSeq(rows, OfType)
    ELSE << >>

\* _load_morphemes: three fetches in a try block; outcome[k] is the k-th fetch's
load_morphemes(self, rows, outcome) ==
    IF outcome[1] = "raise" THEN load_default_morphemes(self)
    ELSE LET s1 == [self EXCEPT !.prefixes =
                        DictFromRows(fetch_all(rows, "prefix", outcome[1]))]
         IN  IF outcome[2] = "raise" THEN load_default_morphemes(s1)
             ELSE LET s2 == [s1 EXCEPT !.suffixes =
                                 DictFromRows(fetch_all(rows, "suffix", outcome[2]))]
                  IN  IF outcome[3] = "raise" THEN load_default_morphemes(s2)
                      ELSE [s2 EXCEPT !.roots =
                                DictFromRows(fetch_all(rows, "root", outcome[3]))]

\* __init__: empty tables, then the database load or the defaults
EmptyTables == [prefixes |-> << >>, suffixes |-> << >>, roots |-> << >>]

construct(with_db, rows, outcome) ==
    IF with_db THEN load_morphemes(EmptyTables, rows, outcome)
    ELSE load_default_morphemes(EmptyTables)

\* ------------------------------------------------------------------------
\* Batch analysis and persistence (morphology.py 390-430)
\* ------------------------------------------------------------------------

\* ','.join(list_of_str)
RECURSIVE JoinComma(_)
JoinComma(list) ==
    IF list = << >> THEN ""
    ELSE IF Len(list) = 1 THEN list[1]
    ELSE list[1] \o "," \o JoinComma(Tail(list))

\* the record _store_analyses builds for one analysis
AnalysisRecord(analysis) ==
    [word    |-> analysis.original,
     root    |-> analysis.root,
     prefix  |-> analysis.prefix,
     suffix  |-> analysis.suffix,
     lemma   |-> analysis.lemma,
     pos_tag |-> IF analysis.possible_pos # << >>
                 THEN JoinComma(analysis.possible_pos) ELSE "None"]

\* the batch loop skipping a word it has already analysed
RECURSIVE BatchLoop_SkipRepeats(_, _, _)
BatchLoop_SkipRepeats(self, ws, results) ==
    IF ws = << >> THEN results
    ELSE IF \E i \in 1..Len(results) : results[i].original = Head(ws)
    THEN BatchLoop_SkipRepeats(self, Tail(ws), results)
    ELSE BatchLoop_SkipRepeats(self, Tail(ws),
                               Append(results, analyze_word(self, Head(ws))))

\* for word in words: results.append(self.analyze_word(word))
RECURSIVE BatchLoop(_, _, _)
BatchLoop(self, ws, results) ==
    IF ws = << >> THEN results
    ELSE BatchLoop(self, Tail(ws), Append(results, analyze_word(self, Head(ws))))

analyze_batch(self, ws) == BatchLoop(self, ws, << >>)

\* DatabaseManager.insert_many('word_analysis', records): one statement in one
\* transaction; nothing is written for an empty list or on a database error
insert_many(table, records, ok) ==
    IF records # << >> /\ ok THEN table \o records ELSE table

store_analyses(table, analyses, ok) ==
    LET records == [i \in 1..Len(analyses) |-> AnalysisRecord(analyses[i])]
    IN  IF records # << >> THEN insert_many(table, records, ok) ELSE table

\* ------------------------------------------------------------------------
\* Segmenter: sentence segmentation (segmentation.py 29-36, 48-111)
\* ------------------------------------------------------------------------

abbreviations ==
    { <<"M", "r", ".">>,
      <<"M", "r", "s", ".">>,
      <<"M", "s", ".">>,
      <<"D", "r", ".">>,
      <<"P", "r", "o", "f", ".">>,
      <<"S", "r", ".">>,
      <<"J", "r", ".">>,
      <<"e", "t", "c", ".">>,
      <<"v", "s", ".">>,
      <<"i", ".", "e", ".">>,
      <<"e", ".", "g", ".">>,
      <<"c", "f", ".">>,
      <<"I", "n", "c", ".">>,
      <<"L", "t", "d", ".">>,
      <<"A", "v", "e", ".">>,
      <<"S", "t", ".">>,
      <<"R", "d", ".">>,
      <<"B", "l", "v", "d", ".">> }
\* the character classes of sentence_endings = ([.!?]+[\s'")\]]*)
EndingChars == { ".", "!", "?" }

WhitespaceChars == { " ", "\t", "\n", "\r" }

ClosingChars == WhitespaceChars \cup { "'", "\"", ")", "]" }

\* str.strip()
RECURSIVE lstrip(_)
lstrip(s) ==
    IF s # << >> /\ Head(s) \in WhitespaceChars THEN lstrip(Tail(s)) ELSE s

RECURSIVE rstrip(_)
rstrip(s) ==
    IF s # << >> /\ s[Len(s)] \in WhitespaceChars
    THEN rstrip(SubSeq(s, 1, Len(s) - 1)) ELSE s

strip(s) == rstrip(lstrip(s))

\* the end of the longest run of characters of class C starting at index i
\* (i - 1 when text[i] is not in C)
RECURSIVE RunEnd(_, _, _)
RunEnd(s, i, C) ==
    IF i <= Len(s) /\ s[i] \in C THEN RunEnd(s, i + 1, C) ELSE i - 1

\* sentence_endings.split(text) from index `from` on: the text before each
\* match, the match itself (the capturing group), and the text after the last
RECURSIVE SplitFrom(_, _, _)
SplitFrom(s, from, i) ==
    IF i > Len(s) THEN << SubSeq(s, from, Len(s)) >>
    ELSE IF s[i] \in EndingChars
    THEN LET e1 == RunEnd(s, i, EndingChars)
             e2 == RunEnd(s, e1 + 1, ClosingChars)
         IN  << SubSeq(s, from, i - 1), SubSeq(s, i, e2) >> \o SplitFrom(s, e2 + 1, e2 + 1)
    ELSE SplitFrom(s, from, i + 1)

sentence_endings_split(s) == SplitFrom(s, 1, 1)

\* sentence_endings.match(part): a match at the start of part
sentence_endings_match(part) == part # << >> /\ part[1] \in EndingChars

\* ''.join(list_of_str)
RECURSIVE JoinAll(_)
JoinAll(list) == IF list = << >> THEN << >> ELSE Head(list) \o JoinAll(Tail(list))

\* for abbr in self.abbreviations: if part.endswith(abbr[:-1])
is_abbr(part) ==
    \E abbr \in abbreviations : endswith(part, SliceToNeg(abbr, 1))

\* the scan loop returning without the final flush of current_sentence
RECURSIVE ScanParts_NoFinalFlush(_, _, _, _)
ScanParts_NoFinalFlush(parts, i, current_sentence, sentences) ==
    IF i > Len(parts) THEN sentences
    ELSE LET part == strip(parts[i])
         IN  IF part = << >>
             THEN ScanParts_NoFinalFlush(parts, i + 1, current_sentence, sentences)
             ELSE IF sentence_endings_match(part)
             THEN LET sentence == strip(JoinAll(Append(current_sentence, part)))
                  IN  ScanParts_NoFinalFlush(parts, i + 1, << >>,
                                IF sentence # << >> THEN Append(sentences, sentence)
                                ELSE sentences)
             ELSE IF /\ i + 1 <= Len(parts)
                     /\ strip(parts[i + 1]) \in { <<".">>, <<"!">>, <<"?">> }
                     /\ is_abbr(part)
             THEN ScanParts_NoFinalFlush(parts, i + 2,
                            Append(current_sentence, part \o parts[i + 1]), sentences)
             ELSE ScanParts_NoFinalFlush(parts, i + 1, Append(current_sentence, part), sentences)

\* the scan loop keeping the abbreviation and skipping the period after it
RECURSIVE ScanParts_AbbreviationWithoutPeriod(_, _, _, _)
ScanParts_AbbreviationWithoutPeriod(parts, i, current_sentence, sentences) ==
    IF i > Len(parts)
    THEN LET sentence == strip(JoinAll(current_sentence))
         IN  IF current_sentence # << >> /\ sentence # << >>
             THEN Append(sentences, sentence) ELSE sentences
    ELSE LET part == strip(parts[i])
         IN  IF part = << >>
             THEN ScanParts_AbbreviationWithoutPeriod(parts, i + 1, current_sentence, sentences)
             ELSE IF sentence_endings_match(part)
             THEN LET sentence == strip(JoinAll(Append(current_sentence, part)))
                  IN  ScanParts_AbbreviationWithoutPeriod(parts, i + 1, << >>,
                                IF sentence # << >> THEN Append(sentences, sentence)
                                ELSE sentences)
             ELSE IF /\ i + 1 <= Len(parts)
                     /\ strip(parts[i + 1]) \in { <<".">>, <<"!">>, <<"?">> }
                     /\ is_abbr(part)
             THEN ScanParts_AbbreviationWithoutPeriod(parts, i + 2,
                            Append(current_sentence, part), sentences)
             ELSE ScanParts_AbbreviationWithoutPeriod(parts, i + 1, Append(current_sentence, part), sentences)

\* the scan loop, `while i < len(parts)` (i counts from 1 here), and the
\* final flush of current_sentence
RECURSIVE ScanParts(_, _, _, _)
ScanParts(parts, i, current_sentence, sentences) ==
    IF i > Len(parts)
    THEN LET sentence == strip(JoinAll(current_sentence))
         IN  IF current_sentence # << >> /\ sentence # << >>
             THEN Append(sentences, sentence) ELSE sentences
    ELSE LET part == strip(parts[i])
         IN  IF part = << >>
             THEN ScanParts(parts, i + 1, current_sentence, sentences)
             ELSE IF sentence_endings_match(part)
             THEN LET sentence == strip(JoinAll(Append(current_sentence, part)))
                  IN  ScanParts(parts, i + 1, << >>,
                                IF sentence # << >> THEN Append(sentences, sentence)
                                ELSE sentences)
             ELSE IF /\ i + 1 <= Len(parts)
                     /\ strip(parts[i + 1]) \in { <<".">>, <<"!">>, <<"?">> }
                     /\ is_abbr(part)
             THEN ScanParts(parts, i + 2,
                            Append(current_sentence, part \o parts[i + 1]), sentences)
             ELSE ScanParts(parts, i + 1, Append(current_sentence, part), sentences)

\* segment_sentences testing the text for emptiness before stripping it and
\* returning a blank text as its only sentence
segment_sentences_BlankAsSentence(text) ==
    LET stripped == strip(text)
    IN  IF text = << >> THEN << >>
        ELSE IF stripped = << >> THEN << text >>
        ELSE ScanParts(sentence_endings_split(stripped), 1, << >>, << >>)

segment_sentences(text) ==
    LET stripped == strip(text)
    IN  IF stripped = << >> THEN << >>
        ELSE ScanParts(sentence_endings_split(stripped), 1, << >>, << >>)

\* one iteration of the scan loop with the increment left out of the branch
\* that skips an empty part
ScanIteration_SkipWithoutAdvance(parts, i, current_sentence, sentences) ==
    LET part == strip(parts[i + 1])
        Locals(j, c, s) == [i |-> j, current_sentence |-> c, sentences |-> s]
    IN  IF part = << >>
        THEN Locals(i, current_sentence, sentences)
        ELSE IF sentence_endings_match(part)
        THEN LET sentence == strip(JoinAll(Append(current_sentence, part)))
             IN  Locals(i + 1, << >>,
                        IF sentence # << >> THEN Append(sentences, sentence)
                        ELSE sentences)
        ELSE IF /\ i + 1 < Len(parts)
                /\ strip(parts[i + 2]) \in { <<".">>, <<"!">>, <<"?">> }
                /\ is_abbr(part)
        THEN Locals(i + 2, Append(current_sentence, part \o parts[i + 2]), sentences)
        ELSE Locals(i + 1, Append(current_sentence, part), sentences)

\* one iteration of `while i < len(parts)` (lines 72-103): the locals it
\* leaves; i counts from 0 as in the source, so parts[i] is parts[i + 1] here
ScanIteration(parts, i, current_sentence, sentences) ==
    LET part == strip(parts[i + 1])
        Locals(j, c, s) == [i |-> j, current_sentence |-> c, sentences |-> s]
    IN  IF part = << >>
        THEN Locals(i + 1, current_sentence, sentences)
        ELSE IF sentence_endings_match(part)
        THEN LET sentence == strip(JoinAll(Append(current_sentence, part)))
             IN  Locals(i + 1, << >>,
                        IF sentence # << >> THEN Append(sentences, sentence)
                        ELSE sentences)
        ELSE IF /\ i + 1 < Len(parts)
                /\ strip(parts[i + 2]) \in { <<".">>, <<"!">>, <<"?">> }
                /\ is_abbr(part)
        THEN Locals(i + 2, Append(current_sentence, part \o parts[i + 2]), sentences)
        ELSE Locals(i + 1, Append(current_sentence, part), sentences)

\* the flush after the loop (lines 105-111): what segment_sentences returns
FinalFlush(current_sentence, sentences) ==
    LET sentence == strip(JoinAll(current_sentence))
    IN  IF current_sentence # << >> /\ sentence # << >>
        THEN Append(sentences, sentence) ELSE sentences

\* ------------------------------------------------------------------------
\* Segmenter: words and tokens (segmentation.py 38-46, 113-166)
\* ------------------------------------------------------------------------

stopwords ==
    { <<"a">>,
      <<"a", "n">>,
      <<"a", "n", "d">>,
      <<"a", "r", "e">>,
      <<"a", "s">>,
      <<"a", "t">>,
      <<"b", "e">>,
      <<"b", "y">>,
      <<"f", "o", "r">>,
      <<"f", "r", "o", "m">>,
      <<"h", "a", "s">>,
      <<"h", "e">>,
      <<"i", "n">>,
      <<"i", "s">>,
      <<"i", "t">>,
      <<"i", "t", "s">>,
      <<"o", "f">>,
      <<"o", "n">>,
      <<"t", "h", "a", "t">>,
      <<"t", "h", "e">>,
      <<"t", "o">>,
      <<"w", "a", "s">>,
      <<"w", "i", "l", "l">>,
      <<"w", "i", "t", "h">> }

Digits == { "0", "1", "2", "3", "4", "5", "6", "7", "8", "9" }

\* the characters \w matches, of those the texts of the model are written in
WordChars ==
    { UpperLetters[i] : i \in 1..Len(UpperLetters) }
    \cup { LowerLetters[i] : i \in 1..Len(LowerLetters) }
    \cup Digits \cup { "_", CapitalIWithDot }

\* punctuation = [^\w\s], matched at the start of the token
punctuation_match(token_text) ==
    /\ token_text # << >>
    /\ token_text[1] \notin WordChars
    /\ token_text[1] \notin WhitespaceChars

\* the token dict built for one match of the pattern; start and end_char count
\* from 0 as match.start() and match.end() do
Token(token_text, position, start_char, end_char) ==
    LET is_punct    == punctuation_match(token_text)
        is_stopword == lower(token_text) \in stopwords
    IN  [text           |-> token_text,
         position       |-> position,
         start_char     |-> start_char,
         end_char       |-> end_char,
         is_punctuation |-> is_punct,
         is_stopword    |-> is_stopword /\ ~is_punct]

\* the loop over finditer with a run of punctuation taken as one token
RECURSIVE TokenizeFrom_PunctuationRuns(_, _, _, _)
TokenizeFrom_PunctuationRuns(s, i, position, preserve_punctuation) ==
    IF i > Len(s) THEN << >>
    ELSE IF s[i] \in WordChars
    THEN LET e == RunEnd(s, i, WordChars)
         IN  << Token(SubSeq(s, i, e), position, i - 1, e) >>
             \o TokenizeFrom_PunctuationRuns(s, e + 1, position + 1,
                                             preserve_punctuation)
    ELSE IF preserve_punctuation /\ s[i] \notin WhitespaceChars
    THEN LET e == CHOOSE j \in i..Len(s) :
                    /\ \A k \in i..j : s[k] \notin WordChars \cup WhitespaceChars
                    /\ j = Len(s) \/ s[j + 1] \in WordChars \cup WhitespaceChars
         IN  << Token(SubSeq(s, i, e), position, i - 1, e) >>
             \o TokenizeFrom_PunctuationRuns(s, e + 1, position + 1,
                                             preserve_punctuation)
    ELSE TokenizeFrom_PunctuationRuns(s, i + 1, position, preserve_punctuation)

\* the loop counting a punctuation character it leaves out as a position
RECURSIVE TokenizeFrom_CountsSkipped(_, _, _, _)
TokenizeFrom_CountsSkipped(s, i, position, preserve_punctuation) ==
    IF i > Len(s) THEN << >>
    ELSE IF s[i] \in WordChars
    THEN LET e == RunEnd(s, i, WordChars)
         IN  << Token(SubSeq(s, i, e), position, i - 1, e) >>
             \o TokenizeFrom_CountsSkipped(s, e + 1, position + 1,
                                           preserve_punctuation)
    ELSE IF s[i] \notin WhitespaceChars
    THEN (IF preserve_punctuation
          THEN << Token(<< s[i] >>, position, i - 1, i) >> ELSE << >>)
         \o TokenizeFrom_CountsSkipped(s, i + 1, position + 1, preserve_punctuation)
    ELSE TokenizeFrom_CountsSkipped(s, i + 1, position, preserve_punctuation)

\* for match in re.finditer(pattern, text), from index i on: pattern is
\* \w+|[^\w\s] when punctuation is preserved and \w+ otherwise
RECURSIVE TokenizeFrom(_, _, _, _)
TokenizeFrom(s, i, position, preserve_punctuation) ==
    IF i > Len(s) THEN << >>
    ELSE IF s[i] \in WordChars
    THEN LET e == RunEnd(s, i, WordChars)
         IN  << Token(SubSeq(s, i, e), position, i - 1, e) >>
             \o TokenizeFrom(s, e + 1, position + 1, preserve_punctuation)
    ELSE IF preserve_punctuation /\ s[i] \notin WhitespaceChars
    THEN << Token(<< s[i] >>, position, i - 1, i) >>
         \o TokenizeFrom(s, i + 1, position + 1, preserve_punctuation)
    ELSE TokenizeFrom(s, i + 1, position, preserve_punctuation)

tokenize(text, preserve_punctuation) ==
    TokenizeFrom(text, 1, 0, preserve_punctuation)

\* re.findall(r'\b\w+\b', text.lower()): the maximal word runs of the
\* lower-cased text
RECURSIVE WordsFrom(_, _)
WordsFrom(s, i) ==
    IF i > Len(s) THEN << >>
    ELSE IF s[i] \in WordChars
    THEN LET e == RunEnd(s, i, WordChars)
         IN  << SubSeq(s, i, e) >> \o WordsFrom(s, e + 1)
    ELSE WordsFrom(s, i + 1)

segment_words(text) == WordsFrom(lower(text), 1)

\* ------------------------------------------------------------------------
\* Segmenter: process_text and its persistence (segmentation.py 168-266,
\* database.py 137-158)
\* ------------------------------------------------------------------------

\* the loop over enumerate(sentences) building sentence_data (lines 190-203);
\* idx counts from 0
RECURSIVE SentenceData(_, _)
SentenceData(sents, idx) ==
    IF idx >= Len(sents) THEN << >>
    ELSE LET sentence == sents[idx + 1]
             ws       == segment_words(sentence)
         IN  << [text       |-> sentence,
                 position   |-> idx,
                 words      |-> ws,
                 word_count |-> Len(ws),
                 tokens     |-> tokenize(sentence, TRUE)] >>
             \o SentenceData(sents, idx + 1)

RECURSIVE SumWordCounts(_)
SumWordCounts(data) ==
    IF data = << >> THEN 0 ELSE Head(data).word_count + SumWordCounts(Tail(data))

\* the results dict process_text builds (lines 179-203)
SegmentationResults(text) ==
    LET sents == segment_sentences(text)
        data  == SentenceData(sents, 0)
    IN  [original_text  |-> text,
         sentence_count |-> Len(sents),
         sentences      |-> data,
         total_words    |-> SumWordCounts(data)]

\* the None an insert_one or a _store_segmentation returns in place of an id;
\* the callers test it with `not`, as they would 0
NoId == 0

\* DatabaseManager.insert_one(table, data): one statement in one transaction
\* of its own; cursor.lastrowid of the AUTO_INCREMENT table when the statement
\* succeeds, None and nothing written on a database error
insert_one(table, data, ok) ==
    IF ok
    THEN [table |-> Append(table, [id |-> Len(table) + 1] @@ data),
          id    |-> Len(table) + 1]
    ELSE [table |-> table, id |-> NoId]

\* the storage collaborator's three tables
EmptyStore == [text_segments |-> << >>, sentences |-> << >>, tokens |-> << >>]

TokenRecords(sentence_id, toks) ==
    [j \in 1..Len(toks) |->
        [sentence_id    |-> sentence_id,
         token          |-> toks[j].text,
         token_position |-> toks[j].position,
         is_punctuation |-> toks[j].is_punctuation,
         is_stopword    |-> toks[j].is_stopword]]

\* the loop writing the token rows of a sentence whose own insert failed
RECURSIVE StoreSentences_TokensOfFailedSentence(_, _, _, _, _)
StoreSentences_TokensOfFailedSentence(store, data, text_id, k, oks) ==
    IF data = << >> THEN [store |-> store, used |-> k - 1]
    ELSE LET sentence_data == Head(data)
             sentence_record ==
                 [text_segment_id   |-> text_id,
                  sentence_text     |-> sentence_data.text,
                  sentence_position |-> sentence_data.position,
                  word_count        |-> sentence_data.word_count]
             inserted == insert_one(store.sentences, sentence_record, oks[k])
             token_records == TokenRecords(Len(store.sentences) + 1, sentence_data.tokens)
         IN  StoreSentences_TokensOfFailedSentence(
                 [store EXCEPT !.sentences = inserted.table,
                               !.tokens = insert_many(@, token_records, TRUE)],
                 Tail(data), text_id, k + 1, oks)

\* the loop over results['sentences'] (lines 239-263): oks[k] is whether the
\* k-th insert the call makes succeeds, k the next insert's number
RECURSIVE StoreSentences(_, _, _, _, _)
StoreSentences(store, data, text_id, k, oks) ==
    IF data = << >> THEN [store |-> store, used |-> k - 1]
    ELSE LET sentence_data == Head(data)
             sentence_record ==
                 [text_segment_id   |-> text_id,
                  sentence_text     |-> sentence_data.text,
                  sentence_position |-> sentence_data.position,
                  word_count        |-> sentence_data.word_count]
             inserted == insert_one(store.sentences, sentence_record, oks[k])
         IN  IF inserted.id # NoId
             THEN LET token_records == TokenRecords(inserted.id, sentence_data.tokens)
                  IN  IF token_records # << >>
                      THEN StoreSentences(
                               [store EXCEPT
                                  !.sentences = inserted.table,
                                  !.tokens = insert_many(@, token_records, oks[k + 1])],
                               Tail(data), text_id, k + 2, oks)
                      ELSE StoreSentences([store EXCEPT !.sentences = inserted.table],
                                          Tail(data), text_id, k + 1, oks)
             ELSE StoreSentences(store, Tail(data), text_id, k + 1, oks)

\* _store_segmentation with a db_manager: the store it leaves, the number of
\* inserts it made, and what it returns
store_segmentation(store, results, oks) ==
    LET text_data == [original_text  |-> results.original_text,
                      sentence_count |-> results.sentence_count,
                      word_count     |-> results.total_words]
        inserted  == insert_one(store.text_segments, text_data, oks[1])
    IN  IF inserted.id = NoId
        THEN [store |-> store, used |-> 1, ret |-> NoId]
        ELSE LET rest == StoreSentences(
                             [store EXCEPT !.text_segments = inserted.table],
                             results.sentences, inserted.id, 2, oks)
             IN  [store |-> rest.store, used |-> rest.used, ret |-> inserted.id]

\* process_text returning nothing when the segment could not be stored
process_text_NoneOnFailure(db_manager, store, text, store_flag, oks) ==
    LET results == SegmentationResults(text)
    IN  IF store_flag /\ db_manager
        THEN LET stored == store_segmentation(store, results, oks)
             IN  [ret   |-> IF stored.ret = NoId THEN None ELSE results,
                  store |-> stored.store,
                  used  |-> stored.used]
        ELSE [ret |-> results, store |-> store, used |-> 0]

\* process_text(text, store_in_db) of a Segmenter whose db_manager is present
\* or not: what it returns, the store it leaves and the inserts it made
process_text(db_manager, store, text, store_flag, oks) ==
    LET results == SegmentationResults(text)
    IN  IF store_flag /\ db_manager
        THEN LET stored == store_segmentation(store, results, oks)
             IN  [ret |-> results, store |-> stored.store, used |-> stored.used]
        ELSE [ret |-> results, store |-> store, used |-> 0]

\* ------------------------------------------------------------------------
\* Inputs of the model
\* ------------------------------------------------------------------------

MaxWordLen == 5

MaxRows == 2

MaxStemLen == 2

MaxBatch == 2

MaxStored == 2

MaxTextLen == 5

MaxTokenTextLen == 4

MaxStoredTextLen == 3

MaxStoredTexts == 1

MaxScanTextLen == 4

RECURSIVE StringsOver(_, _)
StringsOver(chars, n) ==
    IF n = 0 THEN { << >> }
    ELSE LET shorter == StringsOver(chars, n - 1)
         IN  shorter \cup { Append(w, c) : w \in { v \in shorter : Len(v) = n - 1 },
                                           c \in chars }

International == <<"i", "n", "t", "e", "r", "n", "a", "t", "i", "o", "n", "a", "l">>

Interns == <<"i", "n", "t", "e", "r", "n", "s">>

Ins == <<"i", "n", "s">>

Bless == <<"b", "l", "e", "s", "s">>

Went == <<"w", "e", "n", "t">>

Having == <<"h", "a", "v", "i", "n", "g">>

Children == <<"c", "h", "i", "l", "d", "r", "e", "n">>

Babies == <<"b", "a", "b", "i", "e", "s">>

Boxes == <<"b", "o", "x", "e", "s">>

Classes == <<"c", "l", "a", "s", "s", "e", "s">>

Zoo == <<"Z", "o", "o">>

Unhappy == <<"U", "n", "h", "a", "p", "p", "y">>

\* words given to analyze_word, lemmatize and segment_morphemes
Words ==
    { International, Interns, Ins, Bless, Went, Having, Children, Babies, Zoo,
      Unhappy,
      <<"i", "n", "n">>,
      <<"u", "n", "h", "a", "p", "p", "i", "n", "e", "s", "s">>,
      <<"W", "e", "n", "t">>,
      <<"M", "I", "C", "E">>,
      <<"q", "u", "i", "c", "k", "l", "y">> }
    \cup StringsOver({ "e", "s" }, MaxWordLen)

\* words given to lemmatize alone: a short stem and an ending taken from the
\* rule list, and words of the tests and comments of the source
Endings ==
    { suffixes_to_try[i][1] : i \in 1..Len(suffixes_to_try) }
    \cup { << >>, <<"s", "s">>, <<"y">>, <<"e">>, <<"S">>, <<"E", "S">> }

LemmaWords ==
    { Babies, Boxes, Classes, Zoo, Went, Children, Having,
      <<"b", "r", "o", "u", "g", "h", "t">>,
      <<"r", "u", "n", "s">>,
      <<"d", "y", "i", "n", "g">>,
      <<"c", "r", "i", "e", "d">>,
      <<"l", "e", "a", "v", "e", "s">>,
      <<"w", "a", "l", "k", "e", "d">>,
      <<"B", "A", "B", "I", "E", "S">> }
    \cup { stem \o ending : stem \in StringsOver({ "a", "s" }, MaxStemLen),
                            ending \in Endings }

\* lists given to analyze_batch
BatchWords == { Unhappy, Went, <<"s", "e", "s", "s">> }

RECURSIVE ListsOver(_, _)
ListsOver(S, n) ==
    IF n = 0 THEN { << >> }
    ELSE LET shorter == ListsOver(S, n - 1)
         IN  shorter \cup { Append(l, x) : l \in { v \in shorter : Len(v) = n - 1 },
                                           x \in S }

Batches == ListsOver(BatchWords, MaxBatch)

\* texts in which an abbreviation of the table is followed by a space and
\* further text
AbbreviationTexts ==
    { before \o abbr \o <<" ">> \o after :
        before \in { << >>, <<"S", "t", " ">>, <<"t", ".", " ">> },
        abbr \in abbreviations,
        after \in { <<"t">>, <<"S", "t", ".">> } }

\* texts given to segment_sentences
ExampleText ==
    <<"D", "r", ".", " ", "S", "m", "i", "t", "h", " ", "w", "e", "n", "t", " ",
      "t", "o", " ", "W", "a", "s", "h", "i", "n", "g", "t", "o", "n", " ",
      "D", ".", "C", ".", " ", "o", "n", " ", "J", "a", "n", ".", " ",
      "5", "t", "h", ".", " ", "H", "e", " ", "m", "e", "t", " ", "M", "s", ".",
      " ", "J", "o", "h", "n", "s", "o", "n", " ", "t", "h", "e", "r", "e", "!">>

Texts ==
    { ExampleText,
      <<"H", "i", "!", " ", "O", "k", "?", " ", "N", "o", ".">>,
      <<"\"", "H", "i", ".", "\"", " ", "(", "O", "k", ".", ")">> }
    \cup StringsOver({ "S", "t", ".", " " }, MaxTextLen)
    \cup AbbreviationTexts

\* texts given to tokenize: the text of the tokenization test and short texts
\* of letters, an underscore, two punctuation characters and a space
TokenTexts ==
    { <<"H", "e", "l", "l", "o", ",", " ", "w", "o", "r", "l", "d", "!", " ",
        "H", "o", "w", "'", "s", " ", "i", "t", " ", "g", "o", "i", "n", "g", "?">>,
      <<"T", "h", "e", " ", "c", "a", "t", "\t", "i", "s", "\n", "o", "n", ".">> }
    \cup StringsOver({ "a", "T", "_", ",", "!", " " }, MaxTokenTextLen)

\* texts given to process_text
StoredTexts ==
    { <<" ", "\t", "\n">>,
      << CapitalIWithDot, "s", " ", "I", "t", ".", " ", "A", "!" >>,
      <<"A", " ", "t", "o", ".", " ", "I", "s", " ", "i", "t", "?">> }
    \cup StringsOver({ "a", ".", " " }, MaxStoredTextLen)

\* lists given to analyze_batch beside process_text
StoredBatches == { << Went >>, << Unhappy, Went >> }

\* the outcomes of the inserts _store_segmentation can make for n sentences:
\* the text segment's insert, which ends the call when it fails, then for each
\* sentence its insert and, when that succeeds, the insert of its tokens
RECURSIVE SentenceInsertRuns(_)
SentenceInsertRuns(n) ==
    IF n = 0 THEN { << >> }
    ELSE { first \o rest :
             first \in { << FALSE >>, << TRUE, TRUE >>, << TRUE, FALSE >> },
             rest \in SentenceInsertRuns(n - 1) }

InsertRuns(n) ==
    { << FALSE >> } \cup { << TRUE >> \o rest : rest \in SentenceInsertRuns(n) }

\* words analysed beside a reload: words of the regular path
RaceWords == { Unhappy, Interns, <<"s", "e", "s", "s", "s">>, <<"s", "e", "s", "s">> }

\* rows the morphemes table of the database may hold, in table order
DbPool ==
    << [morpheme |-> <<"s">>, type |-> "prefix", meaning |-> "p-s"],
       [morpheme |-> <<"s", "e">>, type |-> "prefix", meaning |-> "p-se"],
       [morpheme |-> << >>, type |-> "prefix", meaning |-> "p-empty"],
       [morpheme |-> <<"s">>, type |-> "suffix", meaning |-> "s-s"],
       [morpheme |-> << >>, type |-> "suffix", meaning |-> "s-empty"],
       [morpheme |-> <<"e", "s", "s">>, type |-> "root", meaning |-> "r-ess"] >>

\* the rows of DbPool at the positions in S, in table order
RECURSIVE PoolRows(_, _)
PoolRows(S, i) ==
    IF i > Len(DbPool) THEN << >>
    ELSE (IF i \in S THEN << DbPool[i] >> ELSE << >>) \o PoolRows(S, i + 1)

DbContents ==
    { PoolRows(S, 1) :
        S \in { T \in SUBSET (1..Len(DbPool)) : Cardinality(T) <= MaxRows } }

\* the outcomes of the fetches one load makes: it stops at the first raise
FetchRuns ==
    { run \in UNION { [1..n -> FetchOutcomes] : n \in 1..3 } :
        /\ \A k \in 1..(Len(run) - 1) : run[k] # "raise"
        /\ Len(run) < 3 => run[Len(run)] = "raise" }

\* a morphemes table with two prefixes of equal length, suffixes that
\* _infer_pos_from_suffix maps and one it does not map, and a root
AffixRows ==
    << [morpheme |-> <<"s", "e">>, type |-> "prefix", meaning |-> "p-se"],
       [morpheme |-> <<"e", "s">>, type |-> "prefix", meaning |-> "p-es"],
       [morpheme |-> <<"s">>, type |-> "prefix", meaning |-> "p-s"],
       [morpheme |-> <<"e", "e">>, type |-> "suffix", meaning |-> "s-ee"],
       [morpheme |-> <<"e", "s">>, type |-> "suffix", meaning |-> "s-es"],
       [morpheme |-> <<"s">>, type |-> "suffix", meaning |-> "s-s"],
       [morpheme |-> <<"s", "e", "s">>, type |-> "root", meaning |-> "r-ses"] >>

AffixDbContents == DbContents \cup { AffixRows }

\* words analysed for the assembly of the analysis: words of the tests, words
\* over the letters of the tables above, a word no table and no rule matches,
\* the empty word
AffixWords ==
    { International, Interns, Ins, Went, Children, Zoo, Unhappy,
      <<"u", "n", "h", "a", "p", "p", "i", "n", "e", "s", "s">>,
      <<"q", "u", "i", "c", "k", "l", "y">>,
      <<"M", "I", "C", "E">>,
      <<"T", "e", "a">>,
      <<"w", "a", "l", "k", "e", "d">>,
      << CapitalIWithDot, "s", "s", "e", "s" >>,
      <<"s", "e", "s", "e", "s", "e", "e">>,
      <<"e", "s", "s", "e", "s", "e", "s">>,
      <<"s", "s", "e", "s", "s">>,
      <<"s", "e", "s", "e", "e">>,
      <<"s", "e", "s", "s">>,
      <<"e", "e", "e">>,
      <<"e", "e">>,
      << >> }

\* texts given to a segment_sentences call followed step by step
ScanTexts ==
    { <<"H", "i", "!", " ", "O", "k", "?", " ", "N", "o">>,
      <<"\"", "H", "i", ".", "\"", " ", "(", "O", "k", ".", ")">> }
    \cup StringsOver({ "t", ".", " " }, MaxScanTextLen)
    \cup AbbreviationTexts

\* words, lists and texts given to one analyzer and one segmenter whose
\* every operation is called, with and without persistence requested
FrameWords == { Unhappy, Children }

FrameBatches == { << Unhappy, Went >> }

FrameTexts == { <<"I", "t", ".">> }

\* ------------------------------------------------------------------------
\* State
\* ------------------------------------------------------------------------

VARIABLES
    has_db,         \* whether a db_manager was injected
    morphemes,      \* the database's morphemes table
    word_analysis,  \* the database's word_analysis table
    prefixes,       \* self.prefixes
    suffixes,       \* self.suffixes
    roots,          \* self.roots
    word,           \* the word a single-word call is given
    words,          \* the list analyze_batch is given
    store_in_db,    \* the store_in_db flag analyze_batch is given
    text,           \* the text segment_sentences, tokenize or process_text is given
    op,             \* the last call made
    ret,            \* what it returned
    preserve_punctuation,  \* the preserve_punctuation flag tokenize is given
    text_segments,  \* the database's text_segments table
    sentences,      \* the database's sentences table
    tokens,         \* the database's tokens table
    inserts,        \* whether each insert the last call made succeeded, in
                    \* call order
    load_pc,        \* where a reload running beside an analysis stands
    analysis_pc,    \* where an analyze_word running beside a reload stands
    seen,           \* the tables that analyze_word has read so far
    versions,       \* the table sets in force, between reloads, since that
                    \* analyze_word or the reload beside it started
    scan_pc,        \* where a segment_sentences call followed step by step stands
    scan_parts,     \* its local parts
    scan_i,         \* its local i
    scan_current,   \* its local current_sentence
    scan_sentences, \* its local sentences
    iterations      \* the iterations its scan loop has made

\* the Segmenter's input flag and the tables it writes
segmenterVars == << preserve_punctuation, text_segments, sentences, tokens >>

\* the positions and observations of a reload and an analysis run side by side
raceVars == << load_pc, analysis_pc, seen, versions >>

\* the locals of a segment_sentences call followed step by step
scanVars == << scan_pc, scan_parts, scan_i, scan_current, scan_sentences, iterations >>

vars == << has_db, morphemes, word_analysis, prefixes, suffixes, roots,
           word, words, store_in_db, text, op, ret, inserts, segmenterVars,
           raceVars, scanVars >>

Self == [prefixes |-> prefixes, suffixes |-> suffixes, roots |-> roots]

\* an analyze_word that has read none of the tables yet
NothingSeen == [prefixes |-> << >>, suffixes |-> << >>, roots |-> << >>, read |-> { }]

\* the analyzer as __init__ leaves it, over a database holding `contents`
Constructed(contents) ==
    /\ has_db \in BOOLEAN
    /\ morphemes \in (IF has_db THEN contents ELSE { << >> })
    /\ \E run \in (IF has_db THEN FetchRuns ELSE { << >> }) :
         LET self == construct(has_db, morphemes, run)
         IN  /\ prefixes = self.prefixes
             /\ suffixes = self.suffixes
             /\ roots = self.roots
    /\ word_analysis = << >>
    /\ text_segments = << >>
    /\ sentences = << >>
    /\ tokens = << >>
    /\ inserts = << >>
    /\ load_pc = "idle"
    /\ analysis_pc = "idle"
    /\ seen = NothingSeen
    /\ versions = { }
    /\ scan_pc = "idle"
    /\ scan_parts = << >>
    /\ scan_i = 0
    /\ scan_current = << >>
    /\ scan_sentences = << >>
    /\ iterations = 0
    /\ op = "init"
    /\ ret = None

Init ==
    /\ Constructed(DbContents)
    /\ word \in Words
    /\ words = << >>
    /\ store_in_db = FALSE
    /\ text = << >>
    /\ preserve_punctuation = TRUE

LemmaInit ==
    /\ Constructed({ << >> })
    /\ word \in LemmaWords
    /\ words = << >>
    /\ store_in_db = FALSE
    /\ text = << >>
    /\ preserve_punctuation = TRUE

BatchInit ==
    /\ Constructed(DbContents)
    /\ word = << >>
    /\ words \in Batches
    /\ store_in_db \in BOOLEAN
    /\ text = << >>
    /\ preserve_punctuation = TRUE

SegInit ==
    /\ Constructed({ << >> })
    /\ word = << >>
    /\ words = << >>
    /\ store_in_db = FALSE
    /\ text \in Texts
    /\ preserve_punctuation = TRUE

TokenInit ==
    /\ Constructed({ << >> })
    /\ word = << >>
    /\ words = << >>
    /\ store_in_db = FALSE
    /\ text \in TokenTexts
    /\ preserve_punctuation \in BOOLEAN

\* a Segmenter and a MorphologyAnalyzer over the same db_manager, given a text
\* or a batch of words
PersistInit ==
    /\ Constructed({ << >> })
    /\ word = << >>
    /\ \/ text \in StoredTexts /\ words = << >>
       \/ text = << >> /\ words \in StoredBatches
    /\ store_in_db \in BOOLEAN
    /\ preserve_punctuation = TRUE

\* an analyzer shared by a caller that analyses a word and a caller that
\* reloads the tables
RaceInit ==
    /\ Constructed(DbContents)
    /\ word \in RaceWords
    /\ words = << >>
    /\ store_in_db = FALSE
    /\ text = << >>
    /\ preserve_punctuation = TRUE

\* an analyzer over a database whose table may hold AffixRows
AffixInit ==
    /\ Constructed(AffixDbContents)
    /\ word \in AffixWords
    /\ words = << >>
    /\ store_in_db = FALSE
    /\ text = << >>
    /\ preserve_punctuation = TRUE

ScanInit ==
    /\ Constructed({ << >> })
    /\ word = << >>
    /\ words = << >>
    /\ store_in_db = FALSE
    /\ text \in ScanTexts
    /\ preserve_punctuation = TRUE

\* an analyzer and a segmenter over one storage collaborator, or over none
FrameInit ==
    /\ Constructed({ << >>, AffixRows })
    /\ word \in FrameWords
    /\ words \in FrameBatches
    /\ store_in_db \in BOOLEAN
    /\ text \in FrameTexts
    /\ preserve_punctuation = TRUE

\* ------------------------------------------------------------------------
\* Operations
\* ------------------------------------------------------------------------

AnalyzeWord ==
    /\ op' = "analyze_word"
    /\ ret' = analyze_word(Self, word)
    /\ inserts' = << >>
    /\ UNCHANGED << scanVars, segmenterVars, raceVars, has_db, morphemes, word_analysis, prefixes, suffixes, roots,
                    word, words, store_in_db, text >>

Lemmatize ==
    /\ op' = "lemmatize"
    /\ ret' = lemmatize(word)
    /\ inserts' = << >>
    /\ UNCHANGED << scanVars, segmenterVars, raceVars, has_db, morphemes, word_analysis, prefixes, suffixes, roots,
                    word, words, store_in_db, text >>

\* lemmatize called on the lemma a lemmatize call returned
Relemmatize ==
    /\ op \in { "lemmatize", "relemmatize" }
    /\ word' = ret
    /\ op' = "relemmatize"
    /\ ret' = lemmatize(ret)
    /\ inserts' = << >>
    /\ UNCHANGED << scanVars, segmenterVars, raceVars, has_db, morphemes, word_analysis, prefixes, suffixes, roots,
                    words, store_in_db, text >>

SegmentMorphemes ==
    /\ op' = "segment_morphemes"
    /\ ret' = segment_morphemes(Self, word)
    /\ inserts' = << >>
    /\ UNCHANGED << scanVars, segmenterVars, raceVars, has_db, morphemes, word_analysis, prefixes, suffixes, roots,
                    word, words, store_in_db, text >>

\* _load_morphemes called again on a constructed analyzer: the reload that
\* NLUSystem.add_morpheme makes (nlu_system.py 231)
LoadMorphemes ==
    /\ has_db
    /\ \E run \in FetchRuns :
         LET self == load_morphemes(Self, morphemes, run)
         IN  /\ prefixes' = self.prefixes
             /\ suffixes' = self.suffixes
             /\ roots' = self.roots
    /\ op' = "load_morphemes"
    /\ ret' = None
    /\ inserts' = << >>
    /\ UNCHANGED << scanVars, segmenterVars, raceVars, has_db, morphemes, word_analysis,
                    word, words, store_in_db, text >>

\* analyze_batch storing its analyses whenever a db_manager is present
AnalyzeBatch_StoresUnasked ==
    /\ Len(word_analysis) + Len(words) <= MaxStored
    /\ \E ok \in BOOLEAN :
         LET results == analyze_batch(Self, words)
         IN  /\ word_analysis' = IF has_db
                                 THEN store_analyses(word_analysis, results, ok)
                                 ELSE word_analysis
             /\ inserts' = IF has_db /\ results # << >>
                           THEN << ok >> ELSE << >>
             /\ ret' = results
    /\ op' = "analyze_batch"
    /\ UNCHANGED << has_db, morphemes, prefixes, suffixes, roots,
                    word, words, store_in_db, text,
                    preserve_punctuation, text_segments, sentences, tokens,
                    raceVars, scanVars >>

\* analyze_batch(words, store_in_db); `ok` is whether the bulk insert succeeds
AnalyzeBatch ==
    /\ Len(word_analysis) + Len(words) <= MaxStored
    /\ \E ok \in BOOLEAN :
         LET results == analyze_batch(Self, words)
         IN  /\ word_analysis' = IF store_in_db /\ has_db
                                 THEN store_analyses(word_analysis, results, ok)
                                 ELSE word_analysis
             /\ inserts' = IF store_in_db /\ has_db /\ results # << >>
                           THEN << ok >> ELSE << >>
             /\ ret' = results
    /\ op' = "analyze_batch"
    /\ UNCHANGED << has_db, morphemes, prefixes, suffixes, roots,
                    word, words, store_in_db, text,
                    preserve_punctuation, text_segments, sentences, tokens,
                    raceVars, scanVars >>

SegmentSentences ==
    /\ op' = "segment_sentences"
    /\ ret' = segment_sentences(text)
    /\ inserts' = << >>
    /\ UNCHANGED << scanVars, segmenterVars, raceVars, has_db, morphemes, word_analysis, prefixes, suffixes, roots,
                    word, words, store_in_db, text >>

Tokenize ==
    /\ op' = "tokenize"
    /\ ret' = tokenize(text, preserve_punctuation)
    /\ inserts' = << >>
    /\ UNCHANGED << scanVars, segmenterVars, raceVars, has_db, morphemes, word_analysis, prefixes, suffixes, roots,
                    word, words, store_in_db, text >>

\* process_text(text, store_in_db); oks[k] is whether the k-th insert the call
\* makes succeeds
ProcessText ==
    /\ Len(text_segments) < MaxStoredTexts
    /\ \E oks \in (IF store_in_db /\ has_db
                   THEN InsertRuns(Len(segment_sentences(text))) ELSE { << >> }) :
         LET call == process_text(has_db,
                                  [text_segments |-> text_segments,
                                   sentences     |-> sentences,
                                   tokens        |-> tokens],
                                  text, store_in_db, oks)
         IN  /\ text_segments' = call.store.text_segments
             /\ sentences' = call.store.sentences
             /\ tokens' = call.store.tokens
             /\ inserts' = SubSeq(oks, 1, call.used)
             /\ ret' = call.ret
    /\ op' = "process_text"
    /\ UNCHANGED << has_db, morphemes, word_analysis, prefixes, suffixes, roots,
                    word, words, store_in_db, text, preserve_punctuation,
                    raceVars, scanVars >>

\* _load_morphemes and analyze_word run side by side on one analyzer, one
\* read or assignment of a table attribute at a time. The reload: each fetch
\* with the assignment of its rows, then, after a fetch that raised, the two
\* assignments of _load_default_morphemes. One reload is made, and it starts
\* before the analysis has returned.
ReloadPrefixes ==
    /\ has_db
    /\ load_pc = "idle"
    /\ analysis_pc # "done"
    /\ \E outcome \in FetchOutcomes :
         IF outcome = "raise"
         THEN /\ load_pc' = "default_prefixes"
              /\ UNCHANGED prefixes
         ELSE /\ load_pc' = "fetch_suffixes"
              /\ prefixes' = DictFromRows(fetch_all(morphemes, "prefix", outcome))
    /\ versions' = IF analysis_pc = "idle" THEN { Self } ELSE versions
    /\ inserts' = << >>
    /\ UNCHANGED << scanVars, segmenterVars, analysis_pc, seen, has_db, morphemes,
                    word_analysis, suffixes, roots, word, words, store_in_db, text,
                    op, ret >>

ReloadSuffixes ==
    /\ load_pc = "fetch_suffixes"
    /\ \E outcome \in FetchOutcomes :
         IF outcome = "raise"
         THEN /\ load_pc' = "default_prefixes"
              /\ UNCHANGED suffixes
         ELSE /\ load_pc' = "fetch_roots"
              /\ suffixes' = DictFromRows(fetch_all(morphemes, "suffix", outcome))
    /\ inserts' = << >>
    /\ UNCHANGED << scanVars, segmenterVars, analysis_pc, seen, versions, has_db, morphemes,
                    word_analysis, prefixes, roots, word, words, store_in_db, text,
                    op, ret >>

\* the reload has returned: its tables are in force
ReloadReturns ==
    /\ load_pc' = "returned"
    /\ versions' = IF analysis_pc = "idle" THEN { } ELSE versions \cup { Self' }

ReloadRoots ==
    /\ load_pc = "fetch_roots"
    /\ inserts' = << >>
    /\ UNCHANGED << scanVars, segmenterVars, analysis_pc, seen, has_db, morphemes,
                    word_analysis, prefixes, suffixes, word, words, store_in_db,
                    text, op, ret >>
    /\ \E outcome \in FetchOutcomes :
         IF outcome = "raise"
         THEN /\ load_pc' = "default_prefixes"
              /\ UNCHANGED << roots, versions >>
         ELSE /\ roots' = DictFromRows(fetch_all(morphemes, "root", outcome))
              /\ ReloadReturns

ReloadDefaultPrefixes ==
    /\ load_pc = "default_prefixes"
    /\ prefixes' = DefaultPrefixes
    /\ load_pc' = "default_suffixes"
    /\ inserts' = << >>
    /\ UNCHANGED << scanVars, segmenterVars, analysis_pc, seen, versions, has_db, morphemes,
                    word_analysis, suffixes, roots, word, words, store_in_db, text,
                    op, ret >>

ReloadDefaultSuffixes ==
    /\ load_pc = "default_suffixes"
    /\ suffixes' = DefaultSuffixes
    /\ inserts' = << >>
    /\ UNCHANGED << scanVars, segmenterVars, analysis_pc, seen, has_db, morphemes,
                    word_analysis, prefixes, roots, word, words, store_in_db, text,
                    op, ret >>
    /\ ReloadReturns

\* analyze_word of a word of the regular path: _identify_prefix reads
\* self.prefixes, _identify_suffix reads self.suffixes, and the root lookup
\* reads self.roots when the root is not empty
AnalyzeIdentifyPrefix ==
    /\ analysis_pc = "idle"
    /\ lower(word) \notin DOMAIN irregular_verbs
    /\ lower(word) \notin DOMAIN irregular_plurals
    /\ seen' = [NothingSeen EXCEPT !.prefixes = prefixes, !.read = { "prefixes" }]
    /\ versions' = IF load_pc \in { "idle", "returned" } THEN { Self } ELSE versions
    /\ analysis_pc' = "identify_suffix"
    /\ inserts' = << >>
    /\ UNCHANGED << scanVars, segmenterVars, load_pc, has_db, morphemes, word_analysis,
                    prefixes, suffixes, roots, word, words, store_in_db, text,
                    op, ret >>

AnalyzeIdentifySuffix ==
    /\ analysis_pc = "identify_suffix"
    /\ seen' = [seen EXCEPT !.suffixes = suffixes, !.read = @ \cup { "suffixes" }]
    /\ analysis_pc' = "root"
    /\ inserts' = << >>
    /\ UNCHANGED << scanVars, segmenterVars, load_pc, versions, has_db, morphemes,
                    word_analysis, prefixes, suffixes, roots, word, words,
                    store_in_db, text, op, ret >>

AnalyzeRoot ==
    /\ analysis_pc = "root"
    /\ LET read_tables == [prefixes |-> seen.prefixes, suffixes |-> seen.suffixes,
                           roots |-> roots]
           analysis == analyze_word(read_tables, word)
       IN  /\ seen' = IF Truthy(analysis.root)
                      THEN [seen EXCEPT !.roots = roots, !.read = @ \cup { "roots" }]
                      ELSE seen
           /\ ret' = analysis
    /\ op' = "analyze_word"
    /\ analysis_pc' = "done"
    /\ inserts' = << >>
    /\ UNCHANGED << scanVars, segmenterVars, load_pc, versions, has_db, morphemes,
                    word_analysis, prefixes, suffixes, roots, word, words,
                    store_in_db, text >>

\* segment_sentences followed step by step; the list it returns is its local
\* sentences. The start (lines 59-70): the text is stripped, a blank text
\* returns [], any other is split into parts
ScanStart ==
    /\ scan_pc = "idle"
    /\ IF strip(text) = << >>
       THEN /\ scan_pc' = "done"
            /\ UNCHANGED scan_parts
       ELSE /\ scan_pc' = "loop"
            /\ scan_parts' = sentence_endings_split(strip(text))
    /\ scan_i' = 0
    /\ scan_current' = << >>
    /\ scan_sentences' = << >>
    /\ iterations' = 0
    /\ UNCHANGED << op, ret, inserts, segmenterVars, raceVars, has_db, morphemes,
                    word_analysis, prefixes, suffixes, roots, word, words,
                    store_in_db, text >>

\* one iteration of the scan loop
ScanLoop ==
    /\ scan_pc = "loop"
    /\ scan_i < Len(scan_parts)
    /\ LET locals == ScanIteration(scan_parts, scan_i, scan_current, scan_sentences)
       IN  /\ scan_i' = locals.i
           /\ scan_current' = locals.current_sentence
           /\ scan_sentences' = locals.sentences
    /\ iterations' = iterations + 1
    /\ UNCHANGED << scan_pc, scan_parts, op, ret, inserts, segmenterVars, raceVars,
                    has_db, morphemes, word_analysis, prefixes, suffixes, roots,
                    word, words, store_in_db, text >>

\* the loop's exit, the final flush and the return
ScanReturn ==
    /\ scan_pc = "loop"
    /\ ~(scan_i < Len(scan_parts))
    /\ scan_pc' = "done"
    /\ scan_sentences' = FinalFlush(scan_current, scan_sentences)
    /\ UNCHANGED << scan_parts, scan_i, scan_current, iterations, op, ret,
                    inserts, segmenterVars, raceVars, has_db, morphemes,
                    word_analysis, prefixes, suffixes, roots, word, words,
                    store_in_db, text >>

Next ==
    \/ AnalyzeWord
    \/ Lemmatize
    \/ SegmentMorphemes
    \/ LoadMorphemes

Spec == Init /\ [][Next]_vars

LemmaNext ==
    \/ Lemmatize
    \/ Relemmatize

LemmaSpec == LemmaInit /\ [][LemmaNext]_vars

BatchNext ==
    \/ AnalyzeBatch
    \/ LoadMorphemes

BatchSpec == BatchInit /\ [][BatchNext]_vars

SegNext == SegmentSentences

SegSpec == SegInit /\ [][SegNext]_vars

TokenNext == Tokenize

TokenSpec == TokenInit /\ [][TokenNext]_vars

RaceNext ==
    \/ ReloadPrefixes
    \/ ReloadSuffixes
    \/ ReloadRoots
    \/ ReloadDefaultPrefixes
    \/ ReloadDefaultSuffixes
    \/ AnalyzeIdentifyPrefix
    \/ AnalyzeIdentifySuffix
    \/ AnalyzeRoot

RaceSpec == RaceInit /\ [][RaceNext]_vars

PersistNext ==
    \/ ProcessText
    \/ AnalyzeBatch
    \/ SegmentSentences

PersistSpec == PersistInit /\ [][PersistNext]_vars

AffixNext ==
    \/ AnalyzeWord
    \/ SegmentMorphemes
    \/ LoadMorphemes

AffixSpec == AffixInit /\ [][AffixNext]_vars

ScanNext ==
    \/ ScanStart
    \/ ScanLoop
    \/ ScanReturn

\* the call runs on one thread: a step that can be taken is taken (every step
\* changes the call's locals)
ScanSpec == ScanInit /\ [][ScanNext]_vars /\ WF_scanVars(ScanNext)

FrameNext ==
    \/ AnalyzeWord
    \/ Lemmatize
    \/ SegmentMorphemes
    \/ AnalyzeBatch
    \/ ProcessText
    \/ LoadMorphemes

FrameSpec == FrameInit /\ [][FrameNext]_vars

\* ------------------------------------------------------------------------
\* Properties
\* ------------------------------------------------------------------------

Analyzed == op = "analyze_word"

Lemmatized == op \in { "lemmatize", "relemmatize" }

\* the word takes the regular path: it is a key of neither irregular table
Regular(w) ==
    /\ lower(w) \notin DOMAIN irregular_verbs
    /\ lower(w) \notin DOMAIN irregular_plurals

\* an absent part as the empty string
Str(x) == IF x = None THEN << >> ELSE x

Longest(S) == CHOOSE p \in S : \A q \in S : Len(q) <= Len(p)

\* the table prefixes that are a literal prefix of the lower-cased word
MatchingPrefixes == { p \in DictKeys(prefixes) : startswith(lower(word), p) }

\* the word without the prefix the analysis reports
Remainder == SliceFrom(lower(word), Len(Str(ret.prefix)))

\* the non-empty table suffixes the remainder ends with
MatchingSuffixes ==
    { s \in DictKeys(suffixes) : s # << >> /\ endswith(Remainder, s) }

\* rule i of the lemmatization list matches lw and its result has 2 characters
RulePasses(lw, i) ==
    /\ endswith(lw, suffixes_to_try[i][1])
    /\ Len(lw) - Len(suffixes_to_try[i][1]) + Len(suffixes_to_try[i][2]) >= 2

PassingRules(lw) == { i \in 1..Len(suffixes_to_try) : RulePasses(lw, i) }

RuleResult(lw, i) ==
    SubSeq(lw, 1, Len(lw) - Len(suffixes_to_try[i][1])) \o suffixes_to_try[i][2]

\* C1: segment_sentences of the example text "Dr. Smith went to Washington
\* D.C. on Jan. 5th. He met Ms. Johnson there!" yields exactly 2 sentences.
C1_ExampleYieldsTwoSentences ==
    (op = "segment_sentences" /\ text = ExampleText) => Len(ret) = 2

\* C2: on the regular path prefix + root + suffix, an absent part taken as
\* the empty string, is the lower-cased input word, whatever tables are loaded.
C2_RoundTrip ==
    (Analyzed /\ Regular(word)) =>
        Str(ret.prefix) \o Str(ret.root) \o Str(ret.suffix) = lower(word)

C2_Witness ==
    /\ Analyzed
    /\ Regular(word)
    /\ Truthy(ret.prefix)
    /\ Truthy(ret.suffix)
    /\ has_db

\* C3 as stated: the reported prefix is the longest table prefix the word
\* starts with, and no prefix at all when that one leaves fewer than 3
\* characters; "international" gives "inter".
C3_LongestPrefixOrNone ==
    (Analyzed /\ Regular(word)) =>
        /\ IF MatchingPrefixes = { } THEN ret.prefix = None
           ELSE IF Len(lower(word)) - Len(Longest(MatchingPrefixes)) >= 3
           THEN ret.prefix = Longest(MatchingPrefixes)
           ELSE ret.prefix = None
        /\ (word = International /\ <<"i", "n", "t", "e", "r">> \in DictKeys(prefixes))
              => ret.prefix = <<"i", "n", "t", "e", "r">>

\* C3 amended: the reported prefix is the longest table prefix among those the
\* word starts with that leave at least 3 characters (a longer matching prefix
\* that leaves fewer is passed over for a shorter one), and no prefix when
\* there is none; "international" gives "inter".
C3_LongestAdmissiblePrefix ==
    (Analyzed /\ Regular(word)) =>
        LET admissible == { p \in MatchingPrefixes : Len(lower(word)) - Len(p) >= 3 }
        IN  /\ IF admissible = { } THEN ret.prefix = None
               ELSE ret.prefix = Longest(admissible)
            /\ (word = International /\ <<"i", "n", "t", "e", "r">> \in DictKeys(prefixes))
                  => ret.prefix = <<"i", "n", "t", "e", "r">>

\* the longest matching prefix leaves fewer than 3 characters and a shorter
\* one is reported
C3_Witness ==
    /\ Analyzed
    /\ Regular(word)
    /\ MatchingPrefixes # { }
    /\ Len(lower(word)) - Len(Longest(MatchingPrefixes)) < 3
    /\ ret.prefix # None

\* C4 as stated: the reported suffix is the longest table suffix the remainder
\* ends with, and no suffix at all when that one leaves a root shorter than 3.
C4_LongestSuffixOrNone ==
    (Analyzed /\ Regular(word)) =>
        IF MatchingSuffixes = { } THEN ret.suffix = None
        ELSE IF Len(Remainder) - Len(Longest(MatchingSuffixes)) >= 3
        THEN ret.suffix = Longest(MatchingSuffixes)
        ELSE ret.suffix = None

\* C4 amended: the reported suffix is the longest non-empty table suffix among
\* those the remainder ends with that leave a root of at least 3 characters,
\* and no suffix when there is none.
C4_LongestAdmissibleSuffix ==
    (Analyzed /\ Regular(word)) =>
        LET admissible == { s \in MatchingSuffixes : Len(Remainder) - Len(s) >= 3 }
        IN  IF admissible = { } THEN ret.suffix = None
            ELSE ret.suffix = Longest(admissible)

\* the longest matching suffix leaves a root shorter than 3 and a shorter
\* suffix is reported
C4_Witness ==
    /\ Analyzed
    /\ Regular(word)
    /\ MatchingSuffixes # { }
    /\ Len(Remainder) - Len(Longest(MatchingSuffixes)) < 3
    /\ ret.suffix # None

\* C5: a reported prefix leaves at least 3 characters, a reported suffix
\* leaves a root of at least 3, so the root has at least 3 characters whenever
\* an affix is reported; "ins" does not lose "in".
C5_MinimumRemainder ==
    Analyzed =>
        /\ ret.prefix # None => Len(lower(word)) - Len(ret.prefix) >= 3
        /\ ret.suffix # None => Len(ret.root) >= 3
        /\ (ret.prefix # None \/ ret.suffix # None) => Len(ret.root) >= 3
        /\ word = Ins => (ret.prefix # <<"i", "n">> /\ ret.root = Ins)

\* "ins" keeps "in" although the table prefix "in" starts it
C5_Witness ==
    /\ Analyzed
    /\ word = Ins
    /\ <<"i", "n">> \in DictKeys(prefixes)
    /\ ret.prefix = None
    /\ ret.root = Ins

\* C6: a key of the irregular-verb table (then of the irregular-plural table)
\* is analysed by the table alone: lemma and root are the base form,
\* possible_pos is <<verb>> (<<noun>>), there is no prefix and no suffix, and
\* morphemes is the one root morpheme.
C6_IrregularPrecedence ==
    Analyzed =>
        LET lw == lower(word)
        IN  /\ lw \in DOMAIN irregular_verbs =>
                 /\ ret.lemma = irregular_verbs[lw]
                 /\ ret.root = irregular_verbs[lw]
                 /\ ret.possible_pos = << "verb" >>
                 /\ ret.prefix = None
                 /\ ret.suffix = None
                 /\ ret.morphemes = << [type    |-> "root",
                                        form    |-> irregular_verbs[lw],
                                        meaning |-> "verb root (irregular)"] >>
            /\ (lw \notin DOMAIN irregular_verbs /\ lw \in DOMAIN irregular_plurals) =>
                 /\ ret.lemma = irregular_plurals[lw]
                 /\ ret.root = irregular_plurals[lw]
                 /\ ret.possible_pos = << "noun" >>
                 /\ ret.prefix = None
                 /\ ret.suffix = None
                 /\ ret.morphemes = << [type    |-> "root",
                                        form    |-> irregular_plurals[lw],
                                        meaning |-> "noun root (irregular plural)"] >>

\* "having" is analysed as "have" although the table suffix "ing" ends it and
\* leaves 3 characters
C6_Witness ==
    /\ Analyzed
    /\ word = Having
    /\ <<"i", "n", "g">> \in DictKeys(suffixes)
    /\ ret.root = <<"h", "a", "v", "e">>
    /\ ret.suffix = None

\* C7: for a word of neither irregular table, when some rule of the ordered
\* list matches with a result of at least 2 characters, the lemma is the
\* result of the first such rule, and that rule has the longest suffix of all
\* such rules; "babies" gives "baby" and "boxes" gives "box".
C7_FirstPassingRule ==
    (Lemmatized /\ Regular(word)) =>
        LET lw      == lower(word)
            passing == PassingRules(lw)
        IN  /\ passing # { } =>
                 /\ ret = RuleResult(lw, SetMin(passing))
                 /\ \A j \in passing :
                      Len(suffixes_to_try[j][1]) <= Len(suffixes_to_try[SetMin(passing)][1])
            /\ word = Babies => ret = <<"b", "a", "b", "y">>
            /\ word = Boxes => ret = <<"b", "o", "x">>

\* a rule that matches is skipped for its short result and a later one applies
C7_Witness ==
    /\ op = "lemmatize"
    /\ Regular(word)
    /\ PassingRules(lower(word)) # { }
    /\ \E i \in 1..Len(suffixes_to_try) :
         /\ i < SetMin(PassingRules(lower(word)))
         /\ endswith(lower(word), suffixes_to_try[i][1])
    /\ ret # lower(word)

\* C8 as stated: when the word is in neither irregular table and no rule
\* applies, lemmatize returns the word itself unchanged.
C8_ReturnsWordUnchanged ==
    (Lemmatized /\ Regular(word) /\ PassingRules(lower(word)) = { }) => ret = word

\* C8 amended: when the word is in neither irregular table and no rule
\* applies, lemmatize returns the lower-cased word.
C8_ReturnsLowerCasedWord ==
    (Lemmatized /\ Regular(word) /\ PassingRules(lower(word)) = { }) =>
        ret = lower(word)

C8_Witness ==
    /\ op = "lemmatize"
    /\ Regular(word)
    /\ PassingRules(lower(word)) = { }
    /\ word # lower(word)
    /\ ret = lower(word)

\* C9: the lemma lemmatize returns is a base form: lemmatizing it again
\* returns it unchanged.
C9_LemmaIsFixedPoint ==
    op = "relemmatize" => ret = word

\* C10: analyze_batch returns one analysis per word, in order, each equal to
\* analyze_word of that word alone, whether or not persistence was requested.
C10_BatchConsistency ==
    op = "analyze_batch" =>
        /\ Len(ret) = Len(words)
        /\ \A i \in 1..Len(words) : ret[i] = analyze_word(Self, words[i])

C10_Witness ==
    /\ op = "analyze_batch"
    /\ Len(words) = 2
    /\ words[1] = words[2]
    /\ store_in_db
    /\ has_db
    /\ Len(word_analysis) = 2

\* the indexes at which a maximal run of word characters of s starts
WordRunStarts(s) ==
    { i \in 1..Len(s) : s[i] \in WordChars /\ (i = 1 \/ s[i - 1] \notin WordChars) }

\* the indexes of the characters of s that are neither word characters nor
\* whitespace
PunctuationIndexes(s) ==
    { i \in 1..Len(s) : s[i] \notin WordChars /\ s[i] \notin WhitespaceChars }

\* C11: with punctuation included, tokenize returns as many tokens as the text
\* has maximal word-character runs plus individual non-word, non-space
\* characters; and no token is both a stopword and punctuation.
C11_TokenCount ==
    op = "tokenize" =>
        /\ preserve_punctuation =>
             Len(ret) = Cardinality(WordRunStarts(text))
                        + Cardinality(PunctuationIndexes(text))
        /\ \A i \in 1..Len(ret) : ~(ret[i].is_stopword /\ ret[i].is_punctuation)

\* a tokenization with punctuation included that holds a stopword, another
\* word and two punctuation tokens
C11_Witness ==
    /\ op = "tokenize"
    /\ preserve_punctuation
    /\ \E i \in 1..Len(ret) : ret[i].is_stopword
    /\ \E i \in 1..Len(ret) : ~ret[i].is_stopword /\ ~ret[i].is_punctuation
    /\ Cardinality({ i \in 1..Len(ret) : ret[i].is_punctuation }) >= 2

\* the text holds a character that is not whitespace
NotBlank(s) == \E i \in 1..Len(s) : s[i] \notin WhitespaceChars

\* C12 as stated: for every non-empty text segment_sentences returns at least
\* one sentence, and no returned sentence is empty.
C12_NonEmptyTextYieldsSentence ==
    (op = "segment_sentences" /\ text # << >>) =>
        /\ Len(ret) >= 1
        /\ \A i \in 1..Len(ret) : ret[i] # << >>

\* C12 amended: for every text holding a non-whitespace character
\* segment_sentences returns at least one sentence; and no sentence it returns,
\* for any text, is empty.
C12_NonBlankTextYieldsSentence ==
    op = "segment_sentences" =>
        /\ NotBlank(text) => Len(ret) >= 1
        /\ \A i \in 1..Len(ret) : ret[i] # << >>

\* a text split in two sentences, the second without a terminator
C12_Witness ==
    /\ op = "segment_sentences"
    /\ NotBlank(text)
    /\ Len(ret) = 2
    /\ ret[2][Len(ret[2])] \notin EndingChars

\* C13: empty or whitespace-only text is no error: segment_sentences returns
\* the empty list and process_text a result with no sentences and
\* total_words 0.
C13_BlankTextYieldsNothing ==
    ~NotBlank(text) =>
        /\ op = "segment_sentences" => ret = << >>
        /\ op = "process_text" =>
             /\ ret.sentences = << >>
             /\ ret.sentence_count = 0
             /\ ret.total_words = 0

\* process_text has returned for a text of whitespace characters only
C13_Witness ==
    /\ op = "process_text"
    /\ text # << >>
    /\ ~NotBlank(text)
    /\ ret.original_text = text

\* s without its whitespace characters
RECURSIVE RemoveWhitespace(_)
RemoveWhitespace(s) ==
    IF s = << >> THEN << >>
    ELSE (IF Head(s) \in WhitespaceChars THEN << >> ELSE << Head(s) >>)
         \o RemoveWhitespace(Tail(s))

\* C14: the sentences segment_sentences returns, concatenated in order and
\* with whitespace removed, are the input with whitespace removed.
C14_PreservesText ==
    op = "segment_sentences" =>
        RemoveWhitespace(JoinAll(ret)) = RemoveWhitespace(text)

\* a text whose abbreviation-merge branch was taken and that was split as well
C14_Witness ==
    /\ op = "segment_sentences"
    /\ Len(ret) >= 2
    /\ \E i \in 1..Len(ret) : \E j \in 1..(Len(ret[i]) - 1) :
         ret[i][j] = "." /\ ret[i][j + 1] = " "

\* the number of non-whitespace characters among the first q of s
NonWhitespaceUpTo(s, q) ==
    Cardinality({ j \in 1..q : s[j] \notin WhitespaceChars })

\* the number of non-whitespace characters of the first k sentences
RECURSIVE SentenceEnd(_, _)
SentenceEnd(sents, k) ==
    IF k = 0 THEN 0
    ELSE SentenceEnd(sents, k - 1) + Len(RemoveWhitespace(sents[k]))

\* abbr occurs in s at index p, followed by a space and further text
OccursBeforeText(abbr, s, p) ==
    /\ p + Len(abbr) <= Len(s)
    /\ SubSeq(s, p, p + Len(abbr) - 1) = abbr
    /\ s[p + Len(abbr)] = " "
    /\ \E j \in (p + Len(abbr) + 1)..Len(s) : s[j] \notin WhitespaceChars

\* C15: when an abbreviation of the table, "i.e." and "e.g." included, occurs
\* in the text followed by a space and further text, no sentence ends at any
\* period of the abbreviation.
C15_AbbreviationSuppression ==
    op = "segment_sentences" =>
        \A abbr \in abbreviations : \A p \in 1..Len(text) :
            OccursBeforeText(abbr, text, p) =>
                \A q \in 1..Len(abbr) :
                    abbr[q] = "." =>
                        \A k \in 1..Len(ret) :
                            SentenceEnd(ret, k) # NonWhitespaceUpTo(text, p + q - 1)

\* the built-in tables: the default prefixes and suffixes, and no roots
DefaultTables == load_default_morphemes(EmptyTables)

\* a fetch of the run failed: the collaborator raised, or its fetch_all
\* swallowed a database error and returned no rows
FetchFailed(run) == \E k \in 1..Len(run) : run[k] \in { "empty", "raise" }

\* C16: after a reload in which fetching the prefix, suffix or root rows
\* fails, all three in-memory tables are the built-in defaults: none is left
\* stale, partly fetched or emptied.
C16_ReloadFallsBackToDefaults ==
    [][\A run \in FetchRuns :
         ( /\ op' = "load_morphemes"
           /\ FetchFailed(run)
           /\ Self' = load_morphemes(Self, morphemes, run) )
         => Self' = DefaultTables]_vars

\* C17: a reload is atomic relative to a word analysis it is interleaved with:
\* the prefix, suffix and root tables the analysis read all belong to one
\* version, the tables in force before the reload or those in force after it.
C17_AnalysisSeesOneVersion ==
    (analysis_pc = "done" /\ load_pc \in { "idle", "returned" }) =>
        \E v \in versions : \A t \in seen.read : seen[t] = v[t]

\* an insert of the last call failed
InsertFailed == \E k \in 1..Len(inserts) : ~inserts[k]

\* what process_text returns for the text when no persistence is requested
ResultWithoutPersistence == process_text(has_db, EmptyStore, text, FALSE, << >>).ret

\* C18: with persistence requested, process_text and analyze_batch return
\* exactly what they return without persistence, whether each insert succeeds
\* or fails; a failed insert does not abort the call.
C18_StorageFailureKeepsResult ==
    /\ op = "process_text" => ret = ResultWithoutPersistence
    /\ op = "analyze_batch" => ret = analyze_batch(Self, words)

\* process_text has returned two sentences or more after the insert of the
\* text segment succeeded and a later insert failed
C18_Witness ==
    /\ op = "process_text"
    /\ store_in_db
    /\ has_db
    /\ InsertFailed
    /\ Len(inserts) >= 2
    /\ ret.sentence_count >= 2

\* what the call returns when every insert it makes succeeds
ResultOfSuccessfulPersistence ==
    process_text(has_db, EmptyStore, text, store_in_db,
                 [k \in 1..(1 + 2 * Len(segment_sentences(text))) |-> TRUE]).ret

\* C19: what the caller receives from process_text or analyze_batch tells a
\* failed persistence from a successful one: after a failed insert the call
\* does not hand back what it hands back when every insert succeeds.
C19_FailureIsReported ==
    (store_in_db /\ has_db /\ InsertFailed) =>
        /\ op = "process_text" => ret # ResultOfSuccessfulPersistence
        /\ op = "analyze_batch" => ret # analyze_batch(Self, words)

\* C20: the records written for one process_text call persist all or nothing:
\* when an insert of the call fails, no record of the call remains in storage.
C20_BatchIsAllOrNothing ==
    [][(op' = "process_text" /\ \E k \in 1..Len(inserts') : ~inserts'[k])
       => UNCHANGED << text_segments, sentences, tokens >>]_vars

\* nothing matches the analysed word: it is a key of neither irregular table,
\* no prefix and no suffix was identified, no lemmatization rule applies
NothingMatches ==
    /\ Analyzed
    /\ Regular(word)
    /\ ~identify_prefix(Self, lower(word)).matched
    /\ ~identify_suffix(Self, lower(word)).matched
    /\ PassingRules(lower(word)) = { }

\* C21 as stated: when nothing matches a word, analyze_word returns the
\* original word as its own lemma and an empty morpheme list.
C21_IdentityFallback ==
    NothingMatches => (ret.lemma = word /\ ret.morphemes = << >>)

\* C21 amended: when nothing matches a word, analyze_word returns the
\* lower-cased word as its own lemma and root, no prefix, no suffix, no part
\* of speech, and a morpheme list that holds the root morpheme alone (and is
\* empty for the empty word only).
C21_FallbackIsLowerCasedRoot ==
    NothingMatches =>
        /\ ret.original = word
        /\ ret.lemma = lower(word)
        /\ ret.root = lower(word)
        /\ ret.prefix = None
        /\ ret.suffix = None
        /\ ret.possible_pos = << >>
        /\ ret.morphemes =
             IF word = << >> THEN << >>
             ELSE << [type    |-> "root",
                      form    |-> lower(word),
                      meaning |-> DictGet(roots, lower(word), "word root")] >>

\* nothing matches a capitalised word and the analysis holds its root morpheme
C21_Witness ==
    /\ NothingMatches
    /\ word # lower(word)
    /\ Len(ret.morphemes) = 1

\* the surface forms of the parts an analysis reports, in the order prefix,
\* root, suffix
PartsFound(analysis) ==
    (IF analysis.prefix # None THEN << analysis.prefix >> ELSE << >>)
    \o << analysis.root >>
    \o (IF analysis.suffix # None THEN << analysis.suffix >> ELSE << >>)

\* the types of those parts, in the same order
PartTypes(analysis) ==
    (IF analysis.prefix # None THEN << "prefix" >> ELSE << >>)
    \o << "root" >>
    \o (IF analysis.suffix # None THEN << "suffix" >> ELSE << >>)

\* C22: on the regular path, for any loaded tables and any non-empty word,
\* morphemes lists exactly the parts found in the order prefix (if matched),
\* root, suffix (if matched), and segment_morphemes returns the surface forms
\* of that list in the same order.
C22_AssemblyOrder ==
    (Regular(word) /\ word # << >>) =>
        /\ Analyzed =>
             /\ [i \in 1..Len(ret.morphemes) |-> ret.morphemes[i].form] = PartsFound(ret)
             /\ [i \in 1..Len(ret.morphemes) |-> ret.morphemes[i].type] = PartTypes(ret)
        /\ op = "segment_morphemes" => ret = PartsFound(analyze_word(Self, word))

\* the tokens of list that are no punctuation, in order
NonPunctuation(list) ==
    LET IsWord(t) == ~t.is_punctuation IN SelectSeq(list, IsWord)

\* C23: for either setting of the punctuation flag, the tokens tokenize
\* returns are numbered 0, 1, 2, ... in order, text[start_char:end_char] is
\* the token's text, and each token ends at or before the start of the next;
\* with punctuation excluded they are the non-punctuation tokens of the
\* default output, with the same text and offsets, renumbered from 0.
C23_TokenSpans ==
    op = "tokenize" =>
        /\ \A i \in 1..Len(ret) :
             /\ ret[i].position = i - 1
             /\ ret[i].start_char < ret[i].end_char
             /\ ret[i].end_char <= Len(text)
             /\ SubSeq(text, ret[i].start_char + 1, ret[i].end_char) = ret[i].text
             /\ i < Len(ret) => ret[i].end_char <= ret[i + 1].start_char
        /\ ~preserve_punctuation =>
             LET words_only == NonPunctuation(tokenize(text, TRUE))
             IN  /\ Len(ret) = Len(words_only)
                 /\ \A i \in 1..Len(ret) :
                      ret[i] = [words_only[i] EXCEPT !.position = i - 1]

\* punctuation is excluded from a text in which a punctuation character
\* stands between two words
C23_Witness ==
    /\ op = "tokenize"
    /\ ~preserve_punctuation
    /\ Len(ret) >= 2
    /\ Len(tokenize(text, TRUE)) > Len(ret)
    /\ \E i \in 1..Len(tokenize(text, TRUE)) :
         /\ tokenize(text, TRUE)[i].is_punctuation
         /\ 1 < i
         /\ i < Len(tokenize(text, TRUE))

\* C24: on the regular path possible_pos is the entry of the suffix-to-POS
\* mapping for the matched suffix ("ly" gives adverb, "ed" gives verb and
\* adjective); it is empty exactly when no suffix matched or the matched
\* suffix has no entry; what prefix matched makes no difference.
C24_PosFromSuffixOnly ==
    (Analyzed /\ Regular(word)) =>
        LET mapped == ret.suffix # None /\ ret.suffix \in DOMAIN pos_map
        IN  /\ mapped => ret.possible_pos = pos_map[ret.suffix]
            /\ ret.possible_pos = << >> <=> ~mapped
            /\ ret.suffix = <<"l", "y">> => ret.possible_pos = << "adverb" >>
            /\ ret.suffix = <<"e", "d">> => ret.possible_pos = << "verb", "adjective" >>

\* a prefix and a suffix matched, and the mapping has no entry for the suffix
C24_Witness ==
    /\ Analyzed
    /\ Regular(word)
    /\ ret.prefix # None
    /\ ret.suffix # None
    /\ ret.suffix \notin DOMAIN pos_map
    /\ ret.possible_pos = << >>

\* C25: segment_sentences terminates: every iteration of the scan loop
\* advances i by 1 or by 2, so the loop makes at most as many iterations as
\* the split produced parts; the loop then ends and the call returns, the
\* accumulated text being the last sentence of the list it returns, which is
\* segment_sentences(text).
C25_ScanTerminates ==
    /\ [][/\ (scan_pc = "loop" /\ scan_pc' = "loop") =>
              /\ scan_i' \in { scan_i + 1, scan_i + 2 }
              /\ iterations' = iterations + 1
              /\ iterations' <= Len(scan_parts)
          /\ (scan_pc = "loop" /\ scan_pc' = "done") =>
              /\ scan_i \in { Len(scan_parts), Len(scan_parts) + 1 }
              /\ scan_sentences' = segment_sentences(text)
              /\ scan_current # << >> =>
                   scan_sentences' = Append(scan_sentences, strip(JoinAll(scan_current)))]_vars
    /\ <>(scan_pc = "done")

\* a call has returned after an iteration that merged an abbreviation with its
\* period, one that skipped an empty part, and a final flush of accumulated
\* text
C25_Witness ==
    /\ scan_pc = "done"
    /\ iterations >= 3
    /\ scan_i > iterations
    /\ \E k \in 1..Len(scan_parts) : strip(scan_parts[k]) = << >>
    /\ scan_current # << >>
    /\ Len(scan_sentences) >= 2

\* the rows of a table inserted in another order: the order reversed when
\* `reversed`, then the first k rows moved to the end
Reordered(table, reversed, k) ==
    LET n    == Len(table)
        base == IF reversed THEN [i \in 1..n |-> table[n + 1 - i]] ELSE table
    IN  IF n = 0 THEN table
        ELSE [i \in 1..n |-> base[((i - 1 + k) % n) + 1]]

\* analyzers holding the entries of this one inserted in other orders
Reorderings ==
    { [prefixes |-> Reordered(prefixes, reversed, k),
       suffixes |-> Reordered(suffixes, reversed, k),
       roots    |-> Reordered(roots, reversed, k)] :
        reversed \in BOOLEAN, k \in 0..2 }

\* C26: affix selection does not depend on the order of the tables: an
\* analyzer whose tables hold the same entries inserted in another order
\* returns the same prefix, root and suffix for the word.
C26_TableOrderIndependence ==
    Analyzed =>
        \A other \in Reorderings :
            LET analysis == analyze_word(other, word)
            IN  /\ analysis.prefix = ret.prefix
                /\ analysis.root = ret.root
                /\ analysis.suffix = ret.suffix

\* the reported prefix shares its length with another prefix of the table,
\* and the two stand in the other order in a reordered table
C26_Witness ==
    /\ Analyzed
    /\ has_db
    /\ ret.prefix # None
    /\ ret.suffix # None
    /\ \E q \in DictKeys(prefixes) : q # ret.prefix /\ Len(q) = Len(ret.prefix)
    /\ \E other \in Reorderings :
         SortedByLenDesc(other.prefixes) # SortedByLenDesc(prefixes)

\* the sum of the word_count fields of data[1..k]
RECURSIVE WordCountUpTo(_, _)
WordCountUpTo(data, k) ==
    IF k = 0 THEN 0 ELSE WordCountUpTo(data, k - 1) + data[k].word_count

\* C27: in a process_text result each sentence's word_count is the number of
\* its tokens that are no punctuation, its words are the lower-cased texts of
\* those tokens in order, its position is its index from 0; total_words is
\* the sum of the word_count fields.
C27_WordsMatchTokens ==
    op = "process_text" =>
        /\ \A k \in 1..Len(ret.sentences) :
             LET sentence_data == ret.sentences[k]
                 word_tokens   == NonPunctuation(sentence_data.tokens)
             IN  /\ sentence_data.word_count = Len(word_tokens)
                 /\ sentence_data.words =
                      [i \in 1..Len(word_tokens) |-> lower(word_tokens[i].text)]
                 /\ sentence_data.position = k - 1
        /\ ret.total_words = WordCountUpTo(ret.sentences, Len(ret.sentences))
        /\ ret.sentence_count = Len(ret.sentences)


\* ------------------------------------------------------------------------
\* C28: no orphan rows, whichever inserts fail
\* ------------------------------------------------------------------------

\* the ids of the rows a table holds
IdsOf(table) == { table[i].id : i \in 1..Len(table) }

\* the rows a step appended to a table
RowsAdded(before, after) == { after[i] : i \in (Len(before) + 1)..Len(after) }

\* C28: whatever subset of the inserts of _store_segmentation fails, storage
\* never holds an orphan row. After every step each stored sentence row
\* carries the id of a stored text segment and each stored token row the id
\* of a stored sentence; the sentence rows a process_text call writes carry
\* the id of the text segment row the same call wrote, its token rows the id
\* of a sentence row the same call wrote; and a call whose text-segment
\* insert failed made that insert only and wrote no row at all.
C28_NoOrphanRows ==
    [][/\ \A i \in 1..Len(sentences') :
             sentences'[i].text_segment_id \in IdsOf(text_segments')
       /\ \A i \in 1..Len(tokens') :
             tokens'[i].sentence_id \in IdsOf(sentences')
       /\ op' = "process_text" =>
            /\ RowsAdded(sentences, sentences') # {} =>
                 /\ inserts' # << >> /\ inserts'[1]
                 /\ Len(text_segments') = Len(text_segments) + 1
                 /\ \A s \in RowsAdded(sentences, sentences') :
                      s.text_segment_id = text_segments'[Len(text_segments')].id
            /\ \A t \in RowsAdded(tokens, tokens') :
                 t.sentence_id \in { s.id : s \in RowsAdded(sentences, sentences') }
            /\ (inserts' # << >> /\ ~inserts'[1]) =>
                 /\ inserts' = << FALSE >>
                 /\ UNCHANGED << text_segments, sentences, tokens >>]_vars

\* a stored text of two sentences: the insert of the first sentence failed,
\* the second sentence and its tokens were written under the segment's id
C28_Witness ==
    /\ op = "process_text"
    /\ inserts = << TRUE, FALSE, TRUE, TRUE >>
    /\ Len(text_segments) = 1
    /\ Len(sentences) = 1
    /\ sentences[1].sentence_position = 1
    /\ tokens # << >>


\* ------------------------------------------------------------------------
\* C29: the lemma of an analysis is lemmatize's, whatever the tables hold
\* ------------------------------------------------------------------------

\* C29: for every word, on the irregular paths as well as the regular one,
\* the lemma field of analyze_word(word) equals lemmatize(word); and with the
\* prefix, suffix and root tables of every state, those a reload left as
\* well as those of construction, an analysis of the word has that same
\* lemma.
C29_LemmaIsLemmatize ==
    /\ op = "analyze_word" => ret.lemma = lemmatize(word)
    /\ analyze_word(Self, word).lemma = lemmatize(word)

\* a capitalised irregular plural analysed after a reload replaced the
\* default tables
C29_Witness ==
    /\ op = "analyze_word"
    /\ prefixes # DefaultPrefixes
    /\ word # lower(word)
    /\ lower(word) \in DOMAIN irregular_plurals
    /\ ret.lemma = irregular_plurals[lower(word)]
    /\ ret.lemma # lower(word)


\* ------------------------------------------------------------------------
\* C30: what the analyses leave alone
\* ------------------------------------------------------------------------

\* C30: analyze_word, lemmatize, segment_morphemes and analyze_batch leave
\* the prefix, suffix and root tables unchanged, only a reload writes them
\* after construction, and with persistence not requested or no storage
\* collaborator injected a process_text or analyze_batch call makes no insert
\* and leaves every table of the storage as it was.
C30_AnalysesLeaveTables ==
    [][/\ op' \in { "analyze_word", "lemmatize", "segment_morphemes",
                    "analyze_batch" } =>
            UNCHANGED << prefixes, suffixes, roots >>
       /\ << prefixes, suffixes, roots >>' # << prefixes, suffixes, roots >> =>
            op' = "load_morphemes"
       /\ (op' \in { "process_text", "analyze_batch" }
             /\ (~store_in_db \/ ~has_db)) =>
            /\ inserts' = << >>
            /\ UNCHANGED << morphemes, word_analysis, text_segments,
                            sentences, tokens >>]_vars

\* a list analysed with a storage collaborator present and persistence not
\* requested, on tables a load took from the database
C30_Witness ==
    /\ op = "analyze_batch"
    /\ has_db
    /\ ~store_in_db
    /\ prefixes # DefaultPrefixes
    /\ Len(ret) = 2
    /\ inserts = << >>
    /\ word_analysis = << >>

====
